---- MODULE Spec2Model ----
(***************************************************************************)
(* A model of the xview extraction engine (modules/video.py,               *)
(* modules/client.py, main.py).                                            *)
(*                                                                         *)
(* A page body is a record [len, frags]: len is its length in characters,  *)
(* frags the sequence, in page order, of the pieces of markup that the     *)
(* regular expressions of consts.py recognise.  A regex search is the      *)
(* first fragment that matches, finditer/findall are all of them in order. *)
(* Text values are sequences of atoms (a letter, a space, a hyphen, HTML   *)
(* entities), URLs are records of the features the code inspects.          *)
(* Optional values: None is <<>>, a present value v is <<v>>.              *)
(***************************************************************************)
EXTENDS Integers, Sequences, FiniteSets, TLC

VARIABLES
    video,   \* the Video object: its attributes and its instance __dict__ cache
    ret,     \* what the last completed call returned or raised
    pc,      \* position of the running Client / plugin coroutine
    locals,  \* local variables of the running coroutine
    net,     \* the requests issued so far, in order (urls handed to Client.fetch)
    cache    \* the plugin's thumbnail cache: files on disk and _last_cache_files

vars == <<video, ret, pc, locals, net, cache>>

None == <<>>
Some(x) == <<x>>
IsSome(o) == Len(o) = 1
Get(o) == o[1]

Max(S) == CHOOSE x \in S : \A y \in S : y <= x
Min(S) == CHOOSE x \in S : \A y \in S : x <= y
Abs(n) == IF n < 0 THEN -n ELSE n

(***************************************************************************)
(* Text                                                                    *)
(***************************************************************************)

\* html.unescape on one atom: one level of entity decoding.
UnescapeAtom(a) ==
    CASE a = "&amp;"     -> "&"
      [] a = "&amp;amp;" -> "&amp;"
      [] a = "&quot;"    -> "\""
      [] OTHER           -> a

Unescape(t) == [i \in 1..Len(t) |-> UnescapeAtom(t[i])]

RECURSIVE LStrip(_)
LStrip(t) == IF t # <<>> /\ Head(t) = " " THEN LStrip(Tail(t)) ELSE t

RECURSIVE RStrip(_)
RStrip(t) ==
    IF t # <<>> /\ t[Len(t)] = " " THEN RStrip(SubSeq(t, 1, Len(t) - 1)) ELSE t

\* str.strip()
Strip(t) == RStrip(LStrip(t))

\* positions where the separator " - " starts
SepPositions(t) ==
    {i \in 1..Len(t) : i + 2 <= Len(t) /\ t[i] = " " /\ t[i+1] = "-" /\ t[i+2] = " "}

\* if " - " in title: title = title.rsplit(" - ", 1)[0]
RSplitSuffix(t) ==
    IF SepPositions(t) = {} THEN t ELSE SubSeq(t, 1, Max(SepPositions(t)) - 1)

\* the capture of ["\']([^"\']+)["\'] on an attribute value: the text up to
\* the first quote character; no match when that is empty
RECURSIVE UpToQuote(_)
UpToQuote(t) ==
    IF t = <<>> \/ Head(t) = "\"" THEN <<>> ELSE <<Head(t)>> \o UpToQuote(Tail(t))

(***************************************************************************)
(* URLs, JSON values and page fragments                                    *)
(***************************************************************************)

\* abs: starts with http:// or https://; qs: the values of the NNNp / NNNNp
\* tokens of the url text in order; exts: its ".mp4" / ".m3u8" / ".webm"
\* occurrences in order
Url(id, abs, qs, exts) == [id |-> id, abs |-> abs, qs |-> qs, exts |-> exts]
NoUrl == Url("", FALSE, <<>>, <<>>)

JVal(t, s, u, items) == [t |-> t, s |-> s, u |-> u, items |-> items]
JStr(s) == JVal("str", s, NoUrl, <<>>)
JUrl(u) == JVal("url", <<>>, u, <<>>)
JObj(pairs) == JVal("obj", <<>>, NoUrl, pairs)
JList(vals) == JVal("list", <<>>, NoUrl, vals)
JInvalid == JVal("invalid", <<>>, NoUrl, <<>>)
NoJson == JVal("none", <<>>, NoUrl, <<>>)
Pair(k, v) == [key |-> k, val |-> v]

Frag(k, v, u, j) == [k |-> k, v |-> v, u |-> u, j |-> j]
OgTitleMeta(v) == Frag("og_title", v, NoUrl, NoJson)   \* <meta property="og:title" content="v">
TitleTag(v) == Frag("title_tag", v, NoUrl, NoJson)     \* <title>v</title>
OgImageMeta(u) == Frag("og_image", <<>>, u, NoJson)    \* <meta property="og:image" content="u">
SourceTag(u) == Frag("source_tag", <<>>, u, NoJson)    \* <source src="u">
BareUrl(u) == Frag("bare_url", <<>>, u, NoJson)        \* u somewhere in text or in another attribute
JsVar(u) == Frag("js_var", <<>>, u, NoJson)            \* file: "u"
JsonLdBlock(j) == Frag("json_ld", <<>>, NoUrl, j)      \* <script type="application/ld+json">j</script>
DisabledMarker == Frag("marker", <<>>, NoUrl, NoJson)  \* "video removed", "404", "error", ...

Body(len, frags) == [len |-> len, frags |-> frags]

\* html.unescape over a whole body: every text value loses one entity level
UnescapeFrag(f) == [f EXCEPT !.v = Unescape(f.v)]
UnescapeBody(b) == [b EXCEPT !.frags = [i \in 1..Len(b.frags) |-> UnescapeFrag(b.frags[i])]]

(***************************************************************************)
(* Video                                                                   *)
(***************************************************************************)

ROOT_URL == "https://secure.xview.tv/"

\* the names under which functools.cached_property stores its values in the
\* instance __dict__: the property names themselves
CachedProps ==
    {"title", "thumbnail", "duration", "description", "views", "uploader",
     "publish_date", "followers"}
\* the '_cached_'-prefixed keys that set_html_content looks for
CachedPrefixed == {"_cached_" \o p : p \in CachedProps}

EmptyMap == [k \in {} |-> NoJson]
Update(m, n) ==
    [k \in DOMAIN m \cup DOMAIN n |-> IF k \in DOMAIN n THEN n[k] ELSE m[k]]

\* Video.__init__
NewVideo(id, content) ==
    [video_id |-> id,
     html_content |-> content,
     url |-> None,
     dict |-> [p \in CachedProps |-> None],
     json_ld_data |-> None,
     video_sources |-> None]

NoContent(v) == v.html_content = None \/ Get(v.html_content).len = 0
Frags(v) == Get(v.html_content).frags

\* Video._flatten_dict
RECURSIVE FlattenDict(_, _)
FlattenDict(pairs, parent_key) ==
    IF pairs = <<>> THEN EmptyMap
    ELSE LET p == Head(pairs)
             new_key == IF parent_key # "" THEN parent_key \o "_" \o p.key ELSE p.key
             here == IF p.val.t = "obj" THEN FlattenDict(p.val.items, new_key)
                     ELSE [k \in {new_key} |-> p.val]
         IN Update(here, FlattenDict(Tail(pairs), parent_key))

\* one JSON-LD block: json.loads, then flatten a dict or every dict of a list
RECURSIVE FlattenList(_)
FlattenList(vals) ==
    IF vals = <<>> THEN EmptyMap
    ELSE Update(IF Head(vals).t = "obj" THEN FlattenDict(Head(vals).items, "") ELSE EmptyMap,
                FlattenList(Tail(vals)))

BlockMap(j) ==
    CASE j.t = "obj"  -> FlattenDict(j.items, "")
      [] j.t = "list" -> FlattenList(j.items)
      [] OTHER        -> EmptyMap

RECURSIVE JsonLdOfFrags(_)
JsonLdOfFrags(frags) ==
    IF frags = <<>> THEN EmptyMap
    ELSE Update(IF Head(frags).k = "json_ld" THEN BlockMap(Head(frags).j) ELSE EmptyMap,
                JsonLdOfFrags(Tail(frags)))

\* Video._parse_json_ld: the mapping it returns, and the object afterwards
ParseJsonLdValue(v) ==
    IF v.json_ld_data # None THEN Get(v.json_ld_data)
    ELSE IF NoContent(v) THEN EmptyMap
    ELSE JsonLdOfFrags(Frags(v))

AfterParseJsonLd(v) == [v EXCEPT !.json_ld_data = Some(ParseJsonLdValue(v))]

\* Video.set_html_content: the object afterwards
AfterSetHtmlContent(v, content) ==
    [v EXCEPT !.html_content = Some(UnescapeBody(content)),
              !.dict = [p \in DOMAIN v.dict |->
                           IF p \in CachedPrefixed THEN None ELSE v.dict[p]]]

\* REGEX_VIDEO_DISABLED.search(content)
DisabledMatch(frags) == \E i \in 1..Len(frags) : frags[i].k = "marker"

\* Video._check_video_status: the exception it raises, or "ok"
CheckVideoStatus(v) ==
    IF NoContent(v) THEN "VideoNotFound"
    ELSE IF DisabledMatch(Frags(v)) THEN "VideoDisabled"
    ELSE "ok"

\* REGEX_VIDEO_TITLE_META.finditer: the og:title metas with a non-empty capture
OgTitleMatches(frags) ==
    SelectSeq(frags, LAMBDA f : f.k = "og_title" /\ UpToQuote(f.v) # <<>>)

\* REGEX_VIDEO_TITLE.finditer: the <title> tags with a non-empty body
TitleTagMatches(frags) ==
    SelectSeq(frags, LAMBDA f : f.k = "title_tag" /\ f.v # <<>>)

\* (mutant) the <title> tag tried before the og:title meta
TitleComputeTagFirst(v) ==
    IF NoContent(v) THEN None
    ELSE IF TitleTagMatches(Frags(v)) # <<>>
        THEN Some(RSplitSuffix(Unescape(Strip(Head(TitleTagMatches(Frags(v))).v))))
    ELSE IF OgTitleMatches(Frags(v)) # <<>>
        THEN Some(Unescape(Strip(UpToQuote(Head(OgTitleMatches(Frags(v))).v))))
    ELSE IF "name" \in DOMAIN ParseJsonLdValue(v)
        THEN Some(ParseJsonLdValue(v)["name"].s)
    ELSE None

\* the body of the title property
TitleCompute(v) ==
    IF NoContent(v) THEN None
    ELSE IF OgTitleMatches(Frags(v)) # <<>>
        THEN Some(Unescape(Strip(UpToQuote(Head(OgTitleMatches(Frags(v))).v))))
    ELSE IF TitleTagMatches(Frags(v)) # <<>>
        THEN Some(RSplitSuffix(Unescape(Strip(Head(TitleTagMatches(Frags(v))).v))))
    ELSE IF "name" \in DOMAIN ParseJsonLdValue(v)
        THEN Some(ParseJsonLdValue(v)["name"].s)
    ELSE None

TitleReachesJsonLd(v) ==
    /\ ~NoContent(v)
    /\ OgTitleMatches(Frags(v)) = <<>>
    /\ TitleTagMatches(Frags(v)) = <<>>

\* cached_property title: the value a read returns, and the object afterwards
TitleValue(v) ==
    IF v.dict["title"] # None THEN Get(v.dict["title"]) ELSE TitleCompute(v)

AfterTitle(v) ==
    IF v.dict["title"] # None THEN v
    ELSE [(IF TitleReachesJsonLd(v) THEN AfterParseJsonLd(v) ELSE v)
             EXCEPT !.dict["title"] = Some(TitleCompute(v))]

\* REGEX_VIDEO_THUMBNAIL.finditer: the og:image metas
OgImageMatches(frags) == SelectSeq(frags, LAMBDA f : f.k = "og_image")

\* the body of the thumbnail property
ThumbnailCompute(v) ==
    IF NoContent(v) THEN None
    ELSE IF OgImageMatches(Frags(v)) # <<>> THEN Some(Head(OgImageMatches(Frags(v))).u)
    ELSE IF "thumbnailUrl" \in DOMAIN ParseJsonLdValue(v)
        THEN Some(ParseJsonLdValue(v)["thumbnailUrl"].u)
    ELSE None

\* cached_property thumbnail: the value a read returns, and the object afterwards
ThumbnailValue(v) ==
    IF v.dict["thumbnail"] # None THEN Get(v.dict["thumbnail"]) ELSE ThumbnailCompute(v)

AfterThumbnail(v) ==
    IF v.dict["thumbnail"] # None THEN v
    ELSE [(IF ~NoContent(v) /\ OgImageMatches(Frags(v)) = <<>> THEN AfterParseJsonLd(v) ELSE v)
             EXCEPT !.dict["thumbnail"] = Some(ThumbnailCompute(v))]

(***************************************************************************)
(* Media sources                                                           *)
(***************************************************************************)

Range(s) == {s[i] : i \in 1..Len(s)}

\* Video._detect_quality
DetectQuality(u) == IF u.qs # <<>> THEN Head(u.qs) ELSE 0

\* Video._detect_format
DetectFormat(u) ==
    IF "mp4" \in Range(u.exts) THEN "mp4"
    ELSE IF "m3u8" \in Range(u.exts) THEN "m3u8"
    ELSE IF "webm" \in Range(u.exts) THEN "webm"
    ELSE "unknown"

Source(u, fmt) == [url |-> u, quality |-> DetectQuality(u), format |-> fmt]
HasUrl(S, u) == \E i \in 1..Len(S) : S[i].url = u

\* the url strings in the text of a JSON value, in order
RECURSIVE UrlsOfJson(_)
RECURSIVE UrlsOfJsonSeq(_)
UrlsOfJson(j) ==
    CASE j.t = "url"  -> <<j.u>>
      [] j.t = "obj"  -> UrlsOfJsonSeq([i \in 1..Len(j.items) |-> j.items[i].val])
      [] j.t = "list" -> UrlsOfJsonSeq(j.items)
      [] OTHER        -> <<>>
UrlsOfJsonSeq(vals) ==
    IF vals = <<>> THEN <<>> ELSE UrlsOfJson(Head(vals)) \o UrlsOfJsonSeq(Tail(vals))

\* the url strings in the text of a fragment
UrlsOfFrag(f) ==
    CASE f.k \in {"og_image", "source_tag", "bare_url", "js_var"} -> <<f.u>>
      [] f.k = "json_ld" -> UrlsOfJson(f.j)
      [] OTHER -> <<>>

RECURSIVE UrlsOfFrags(_)
UrlsOfFrags(frags) ==
    IF frags = <<>> THEN <<>> ELSE UrlsOfFrag(Head(frags)) \o UrlsOfFrags(Tail(frags))

\* the last mp4 / m3u8 extension of a url: group 2 of REGEX_VIDEO_SOURCE_JS
PlayableExts(u) == SelectSeq(u.exts, LAMBDA e : e \in {"mp4", "m3u8"})
LastPlayableExt(u) == PlayableExts(u)[Len(PlayableExts(u))]

\* REGEX_VIDEO_SOURCE.finditer: the urls of the <source src=...> tags
SourceTagUrls(frags) ==
    LET tags == SelectSeq(frags, LAMBDA f : f.k = "source_tag")
    IN [i \in 1..Len(tags) |-> tags[i].u]

\* REGEX_VIDEO_SOURCE_MP4 / REGEX_VIDEO_SOURCE_M3U8.finditer: absolute urls
\* with that extension anywhere in the body
BareUrls(frags, ext) ==
    SelectSeq(UrlsOfFrags(frags), LAMBDA u : u.abs /\ ext \in Range(u.exts))

\* REGEX_VIDEO_SOURCE_JS.finditer: source / src / video_url / file assignments
\* of a quoted url with an mp4 or m3u8 extension
JsVarUrls(frags) ==
    LET hits == SelectSeq(frags, LAMBDA f : f.k \in {"source_tag", "js_var"}
                                            /\ PlayableExts(f.u) # <<>>)
    IN [i \in 1..Len(hits) |-> hits[i].u]

\* the first loop of _extract_video_sources: append every match
RECURSIVE AppendSourceTags(_, _)
AppendSourceTags(S, urls) ==
    IF urls = <<>> THEN S
    ELSE AppendSourceTags(Append(S, Source(Head(urls), DetectFormat(Head(urls)))), Tail(urls))

\* the second and third loop: append a url that is not yet in the list
RECURSIVE AppendNewFixed(_, _, _)
AppendNewFixed(S, urls, fmt) ==
    IF urls = <<>> THEN S
    ELSE AppendNewFixed(IF HasUrl(S, Head(urls)) THEN S
                        ELSE Append(S, Source(Head(urls), fmt)),
                        Tail(urls), fmt)

\* (mutant) the fourth loop without the test for a url already listed
RECURSIVE AppendJsAlways(_, _)
AppendJsAlways(S, urls) ==
    IF urls = <<>> THEN S
    ELSE AppendJsAlways(Append(S, Source(Head(urls), LastPlayableExt(Head(urls)))), Tail(urls))

\* the fourth loop: the format is the matched extension
RECURSIVE AppendNewJs(_, _)
AppendNewJs(S, urls) ==
    IF urls = <<>> THEN S
    ELSE AppendNewJs(IF HasUrl(S, Head(urls)) THEN S
                     ELSE Append(S, Source(Head(urls), LastPlayableExt(Head(urls)))),
                     Tail(urls))

\* the JSON-LD contentUrl (a string), appended when it is not yet in the list
AppendContentUrl(S, json_ld) ==
    IF "contentUrl" \in DOMAIN json_ld /\ ~HasUrl(S, json_ld["contentUrl"].u)
    THEN Append(S, Source(json_ld["contentUrl"].u, DetectFormat(json_ld["contentUrl"].u)))
    ELSE S

\* Video._extract_video_sources: the list it returns, and the object afterwards
ExtractVideoSourcesValue(v) ==
    IF v.video_sources # None THEN Get(v.video_sources)
    ELSE IF NoContent(v) THEN <<>>
    ELSE LET s1 == AppendSourceTags(<<>>, SourceTagUrls(Frags(v)))
             s2 == AppendNewFixed(s1, BareUrls(Frags(v), "mp4"), "mp4")
             s3 == AppendNewFixed(s2, BareUrls(Frags(v), "m3u8"), "m3u8")
             s4 == AppendNewJs(s3, JsVarUrls(Frags(v)))
         IN AppendContentUrl(s4, ParseJsonLdValue(v))

AfterExtractVideoSources(v) ==
    IF v.video_sources # None THEN v
    ELSE [(IF NoContent(v) THEN v ELSE AfterParseJsonLd(v))
             EXCEPT !.video_sources = Some(ExtractVideoSourcesValue(v))]

\* sorted(set(...), reverse=True)
RECURSIVE SortedDesc(_)
SortedDesc(S) == IF S = {} THEN <<>> ELSE <<Max(S)>> \o SortedDesc(S \ {Max(S)})

\* (mutant) the unknown quality 0 listed with the others
AvailableQualitiesWithUnknown(v) ==
    LET sources == ExtractVideoSourcesValue(v)
    IN SortedDesc({sources[i].quality : i \in 1..Len(sources)})

\* Video.available_qualities
AvailableQualities(v) ==
    LET sources == ExtractVideoSourcesValue(v)
    IN SortedDesc({sources[i].quality : i \in {j \in 1..Len(sources) : sources[j].quality > 0}})

(***************************************************************************)
(* Quality selection                                                       *)
(***************************************************************************)

\* a quality token is a string, modelled as the sequence of its characters
BEST == <<"b", "e", "s", "t">>
WORST == <<"w", "o", "r", "s", "t">>
HALF == <<"h", "a", "l", "f">>

Digits == {"0", "1", "2", "3", "4", "5", "6", "7", "8", "9"}
DigitVal(c) ==
    CASE c = "0" -> 0 [] c = "1" -> 1 [] c = "2" -> 2 [] c = "3" -> 3 [] c = "4" -> 4
      [] c = "5" -> 5 [] c = "6" -> 6 [] c = "7" -> 7 [] c = "8" -> 8 [] c = "9" -> 9

\* quality.replace("p", "")
RemoveP(q) == SelectSeq(q, LAMBDA c : c # "p")

\* int(s) raises ValueError unless s is a non-empty run of digits
IntParses(s) == s # <<>> /\ \A i \in 1..Len(s) : s[i] \in Digits

RECURSIVE IntOf(_)
IntOf(s) == IF s = <<>> THEN 0 ELSE IntOf(SubSeq(s, 1, Len(s) - 1)) * 10 + DigitVal(s[Len(s)])

\* (mutant) no preference for mp4: all sources are candidates
Mp4SourcesUnfiltered(sources) == sources

\* mp4_sources: the mp4-format sources, or all of them when there is none
Mp4Sources(sources) ==
    LET mp4 == SelectSeq(sources, LAMBDA s : s.format = "mp4")
    IN IF mp4 = <<>> THEN sources ELSE mp4

\* sorted(mp4_sources, key=quality, reverse=True): stable, equal keys keep their order
RECURSIVE InsertDesc(_, _)
InsertDesc(sorted, x) ==
    IF sorted = <<>> THEN <<x>>
    ELSE IF Head(sorted).quality >= x.quality
        THEN <<Head(sorted)>> \o InsertDesc(Tail(sorted), x)
    ELSE <<x>> \o sorted

RECURSIVE SortInto(_, _)
SortInto(sorted, rest) ==
    IF rest = <<>> THEN sorted ELSE SortInto(InsertDesc(sorted, Head(rest)), Tail(rest))

SortedSources(sources) == SortInto(<<>>, Mp4Sources(sources))

\* (mutant) the lower median instead of index count // 2
HalfIndexLowerMedian(n) == ((n - 1) \div 2) + 1

\* mid_idx = len(sorted_sources) // 2 (0-based), as a 1-based position
HalfIndex(n) == (n \div 2) + 1

\* the first source of that quality, if any
ExactMatches(sorted, target) == SelectSeq(sorted, LAMBDA s : s.quality = target)

\* (mutant) the last of the sources at minimal distance
ClosestLast(sorted, target) ==
    sorted[Max({i \in 1..Len(sorted) :
                  \A j \in 1..Len(sorted) :
                     Abs(sorted[i].quality - target) <= Abs(sorted[j].quality - target)})]

\* min(sorted_sources, key=|quality - target|): the first of the minimal ones
Closest(sorted, target) ==
    sorted[Min({i \in 1..Len(sorted) :
                  \A j \in 1..Len(sorted) :
                     Abs(sorted[i].quality - target) <= Abs(sorted[j].quality - target)})]

\* (mutant) the last entry when the token does not parse
SelectNumericElseWorst(sorted, quality) ==
    IF IntParses(RemoveP(quality))
    THEN IF ExactMatches(sorted, IntOf(RemoveP(quality))) # <<>>
         THEN Head(ExactMatches(sorted, IntOf(RemoveP(quality))))
         ELSE Closest(sorted, IntOf(RemoveP(quality)))
    ELSE sorted[Len(sorted)]

\* the branch of get_video_url for a token that is none of best / worst / half
SelectNumeric(sorted, quality) ==
    IF IntParses(RemoveP(quality))
    THEN IF ExactMatches(sorted, IntOf(RemoveP(quality))) # <<>>
         THEN Head(ExactMatches(sorted, IntOf(RemoveP(quality))))
         ELSE Closest(sorted, IntOf(RemoveP(quality)))
    ELSE sorted[1]

\* Video.get_video_url on a source list: None, or the url it returns
SelectUrl(sources, quality) ==
    IF sources = <<>> THEN None
    ELSE LET sorted == SortedSources(sources)
         IN Some((CASE quality = BEST  -> sorted[1]
                    [] quality = WORST -> sorted[Len(sorted)]
                    [] quality = HALF  -> sorted[HalfIndex(Len(sorted))]
                    [] OTHER           -> SelectNumeric(sorted, quality)).url)

GetVideoUrlValue(v, quality) == SelectUrl(ExtractVideoSourcesValue(v), quality)

(***************************************************************************)
(* Operations on a Video object                                            *)
(***************************************************************************)

NotRunning == pc = "idle"
Idle == UNCHANGED <<pc, locals, net, cache>>

Result(op, arg, val) == [op |-> op, arg |-> arg, val |-> val]

\* video.set_html_content(content)
SetHtmlContent(content) ==
    /\ NotRunning
    /\ video' = AfterSetHtmlContent(video, content)
    /\ ret' = Result("set_html_content", <<>>, <<>>)
    /\ Idle

\* video.title
ReadTitle ==
    /\ NotRunning
    /\ ret' = Result("title", <<>>, TitleValue(video))
    /\ video' = AfterTitle(video)
    /\ Idle

\* video._parse_json_ld()
ParseJsonLd ==
    /\ NotRunning
    /\ ret' = Result("_parse_json_ld", <<>>, <<>>)
    /\ video' = AfterParseJsonLd(video)
    /\ Idle

\* video.video_sources
ReadVideoSources ==
    /\ NotRunning
    /\ ret' = Result("video_sources", <<>>, <<>>)
    /\ video' = AfterExtractVideoSources(video)
    /\ Idle

\* video.available_qualities
ReadAvailableQualities ==
    /\ NotRunning
    /\ ret' = Result("available_qualities", <<>>, AvailableQualities(video))
    /\ video' = AfterExtractVideoSources(video)
    /\ Idle

\* video.get_video_url(quality)
GetVideoUrl(quality) ==
    /\ NotRunning
    /\ ret' = Result("get_video_url", quality, GetVideoUrlValue(video, quality))
    /\ video' = AfterExtractVideoSources(video)
    /\ Idle

(***************************************************************************)
(* SpecVideo: one Video object under any sequence of content loads and     *)
(* reads                                                                   *)
(***************************************************************************)

SeqsUpTo(S, n) == UNION {[1..k -> S] : k \in 0..n}

TitleA == <<"a">>
TitleB == <<"a", "a">>
TitleC == <<"a", "-", "a">>

U720 == Url("v720", TRUE, <<720>>, <<"mp4">>)       \* https://cdn/v_720p.mp4
U1080 == Url("v1080", TRUE, <<1080>>, <<"mp4">>)    \* https://cdn/v_1080p.mp4

LdDoc == JObj(<<Pair("name", JStr(TitleC)), Pair("contentUrl", JUrl(U1080))>>)

VideoFrags ==
    {OgTitleMeta(TitleA), OgTitleMeta(TitleB), SourceTag(U720), JsonLdBlock(LdDoc)}

MaxVideoFrags == 2

VideoPages ==
    {Body(0, <<>>)} \cup {Body(1200, f) : f \in SeqsUpTo(VideoFrags, MaxVideoFrags)}

VideoTokens == {BEST, WORST}

VideoId123 == <<"1", "2", "3">>

NoResult == Result("none", <<>>, <<>>)
NoLocals == [op |-> "none"]
NoCache == [disk |-> {}, last |-> <<>>]

InitVideo ==
    /\ video \in {NewVideo(VideoId123, None)}
                 \cup {NewVideo(VideoId123, Some(p)) : p \in VideoPages}
    /\ ret = NoResult
    /\ pc = "idle"
    /\ locals = NoLocals
    /\ net = <<>>
    /\ cache = NoCache

NextVideo ==
    \/ \E p \in VideoPages : SetHtmlContent(p)
    \/ ReadTitle
    \/ ParseJsonLd
    \/ ReadVideoSources
    \/ ReadAvailableQualities
    \/ \E q \in VideoTokens : GetVideoUrl(q)

SpecVideo == InitVideo /\ [][NextVideo]_vars

\* the same content in an object that has computed nothing yet
Fresh(v) == NewVideo(v.video_id, v.html_content)

SourceUrls(S) == {S[i].url : i \in 1..Len(S)}

\* C1: a title read returns the value computed from the current raw content,
\* whatever content was loaded and read before
C1_TitleFollowsContent ==
    ret.op = "title" => ret.val = TitleCompute(Fresh(video))

\* C3: the media-source list never holds two entries with the same url
C3_SourcesUniqueByUrl ==
    video.video_sources # None =>
        \A i, j \in 1..Len(Get(video.video_sources)) :
            i # j => Get(video.video_sources)[i].url # Get(video.video_sources)[j].url

\* C4: the media-source list, availableQualities, the JSON-LD mapping and the
\* answer of get_video_url hold nothing that the current raw content does not yield
C4_CollectionsFollowContent ==
    /\ video.video_sources # None =>
          SourceUrls(Get(video.video_sources))
              \subseteq SourceUrls(ExtractVideoSourcesValue(Fresh(video)))
    /\ video.json_ld_data # None =>
          \A k \in DOMAIN Get(video.json_ld_data) :
              /\ k \in DOMAIN ParseJsonLdValue(Fresh(video))
              /\ Get(video.json_ld_data)[k] = ParseJsonLdValue(Fresh(video))[k]
    /\ ret.op = "available_qualities" =>
          Range(ret.val) \subseteq Range(AvailableQualities(Fresh(video)))
    /\ (ret.op = "get_video_url" /\ ret.val # None) =>
          Get(ret.val) \in SourceUrls(ExtractVideoSourcesValue(Fresh(video)))

(***************************************************************************)
(* SpecSelect: a Video object as Client.get_video hands it out (content    *)
(* loaded once), asked for media urls                                      *)
(***************************************************************************)

M1080 == Url("m1080", TRUE, <<1080>>, <<"mp4">>)      \* https://cdn/a_1080p.mp4
M720 == Url("m720", TRUE, <<720>>, <<"mp4">>)         \* https://cdn/a_720p.mp4
M720b == Url("m720b", TRUE, <<720, 1080>>, <<"mp4">>) \* https://cdn/720p/b_1080p.mp4
M480 == Url("m480", TRUE, <<480>>, <<"mp4">>)         \* https://cdn/a_480p.mp4
M360 == Url("m360", TRUE, <<360>>, <<"mp4">>)         \* https://cdn/a_360p.mp4
H1080 == Url("h1080", TRUE, <<1080>>, <<"m3u8">>)     \* https://cdn/a_1080p.m3u8
W0 == Url("w0", FALSE, <<>>, <<"webm">>)              \* /media/a.webm

SelectUrls == {M1080, M720, M720b, M480, M360, H1080, W0}

MaxSelectFrags == 4

SelectPages ==
    {Body(1200, f) : f \in SeqsUpTo({SourceTag(u) : u \in SelectUrls}, MaxSelectFrags)}

T720 == <<"7", "2", "0">>
T720p == <<"7", "2", "0", "p">>
T900 == <<"9", "0", "0">>
T500 == <<"5", "0", "0">>
TJunk == <<"x">>

SelectTokens == {BEST, WORST, HALF, T720, T720p, T900, T500, TJunk}

Loaded == video.html_content # None

\* Client.get_video, last step: the one content load of a record
LoadContent(p) ==
    /\ ~Loaded
    /\ SetHtmlContent(p)

\* XViewPlugin.cmd_video_link, Client.get_video_url: a record is asked for one
\* media url and dropped; XViewPlugin._format_video_info reads
\* available_qualities right after the load
Replied == ret.op = "get_video_url"
JustLoaded == ret.op = "set_html_content"

InitSelect ==
    /\ video = NewVideo(VideoId123, None)
    /\ ret = NoResult
    /\ pc = "idle"
    /\ locals = NoLocals
    /\ net = <<>>
    /\ cache = NoCache

NextSelect ==
    \/ ~Loaded /\ \E p \in SelectPages : LoadContent(p)
    \/ \E q \in SelectTokens : Loaded /\ ~Replied /\ GetVideoUrl(q)
    \/ Loaded /\ JustLoaded /\ ReadAvailableQualities

SpecSelect == InitSelect /\ [][NextSelect]_vars

\* the media-source list the object holds
Held == Get(video.video_sources)

\* positions of the chosen subset: the mp4 entries, or all when there is none
ChosenIdx(S) ==
    IF \E i \in 1..Len(S) : S[i].format = "mp4"
    THEN {i \in 1..Len(S) : S[i].format = "mp4"}
    ELSE 1..Len(S)

\* 0-based position of entry i in the chosen subset ordered by quality
\* descending, equal qualities in discovery order
Rank(S, i) ==
    Cardinality({j \in ChosenIdx(S) : S[j].quality > S[i].quality})
    + Cardinality({j \in ChosenIdx(S) : j < i /\ S[j].quality = S[i].quality})

AtRank(S, r) == S[CHOOSE i \in ChosenIdx(S) : Rank(S, i) = r]

Answered(q) == ret.op = "get_video_url" /\ ret.arg = q /\ Held # <<>>

\* the number a token stands for once a trailing "p" is stripped
StripTrailingP(q) ==
    IF q # <<>> /\ q[Len(q)] = "p" THEN SubSeq(q, 1, Len(q) - 1) ELSE q
NumericToken(q) == q \notin {BEST, WORST, HALF} /\ IntParses(StripTrailingP(q))

Distance(S, i, t) == Abs(S[i].quality - t)
Nearest(S, t) ==
    {i \in ChosenIdx(S) : \A j \in ChosenIdx(S) : Distance(S, i, t) <= Distance(S, j, t)}

\* C6: a numeric token gets a source of exactly that quality when the chosen
\* subset has one, otherwise the source at the smallest quality distance, the
\* first of them in descending order on a tie
C6_NumericOrClosest ==
    \A q \in SelectTokens :
        (Answered(q) /\ NumericToken(q)) =>
            LET t == IntOf(StripTrailingP(q))
                exact == {i \in ChosenIdx(Held) : Held[i].quality = t}
            IN IF exact # {}
               THEN \E i \in exact : ret.val = Some(Held[i].url)
               ELSE \E i \in Nearest(Held, t) :
                       /\ \A j \in Nearest(Held, t) : Rank(Held, i) <= Rank(Held, j)
                       /\ ret.val = Some(Held[i].url)

HeldQualities == [i \in 1..Len(Held) |-> Held[i].quality]

C6_Witness ==
    /\ Loaded /\ video.video_sources # None
    /\ Answered(T900)
    /\ HeldQualities = <<1080, 720, 480, 360>>
    /\ ret.val = Some(M1080)

\* C7: "best" is the first, "worst" the last and "half" the entry at index
\* count // 2 of the chosen sources in stable descending quality order
C7_BestWorstHalf ==
    LET n == Cardinality(ChosenIdx(Held))
    IN /\ Answered(BEST) => ret.val = Some(AtRank(Held, 0).url)
       /\ Answered(WORST) => ret.val = Some(AtRank(Held, n - 1).url)
       /\ Answered(HALF) => ret.val = Some(AtRank(Held, n \div 2).url)

C7_Witness ==
    /\ Loaded /\ video.video_sources # None
    /\ Answered(HALF)
    /\ HeldQualities = <<360, 720, 1080, 480>>
    /\ ret.val = Some(M480)

\* C8: the answer is the url of an mp4-format source whenever the list holds
\* one; without any, it comes from the full list (for "best" its top quality)
C8_Mp4Preferred ==
    (ret.op = "get_video_url" /\ Held # <<>>) =>
        IF \E i \in 1..Len(Held) : Held[i].format = "mp4"
        THEN \E i \in 1..Len(Held) :
                Held[i].format = "mp4" /\ ret.val = Some(Held[i].url)
        ELSE /\ \E i \in 1..Len(Held) : ret.val = Some(Held[i].url)
             /\ ret.arg = BEST =>
                   \E i \in 1..Len(Held) :
                       /\ ret.val = Some(Held[i].url)
                       /\ \A j \in 1..Len(Held) : Held[j].quality <= Held[i].quality

C8_Witness ==
    /\ Loaded /\ video.video_sources # None
    /\ Answered(BEST)
    /\ Held = <<Source(H1080, "m3u8"), Source(M720, "mp4")>>
    /\ ret.val = Some(M720)

(***************************************************************************)
(* SpecTitle: the title of a record whose page carries the text in an      *)
(* og:title meta, in a <title> tag or in JSON-LD                           *)
(***************************************************************************)

\* the characters of a page's title text
TitleAtoms == {"a", " ", "-", "&amp;amp;", "&quot;"}

MaxTitleLen == 4

\* every short text, and the texts "t - u" with a site suffix
TitleTexts ==
    SeqsUpTo(TitleAtoms, MaxTitleLen)
    \cup {t \o <<" ", "-", " ">> \o u : t, u \in SeqsUpTo(TitleAtoms, MaxTitleLen - 3)}

SiteTitle == <<"a", "a", " ", "-", " ", "a">>
LdName == JObj(<<Pair("name", JStr(TitleB))>>)

TitlePages ==
    {Body(1200, f) :
        f \in {<<JsonLdBlock(LdName)>>}
              \cup {<<OgTitleMeta(t)>> : t \in TitleTexts}
              \cup {<<TitleTag(SiteTitle), JsonLdBlock(LdName), OgTitleMeta(t)>> : t \in TitleTexts}
              \cup {<<TitleTag(t), JsonLdBlock(LdName)>> : t \in TitleTexts}}

InitTitle ==
    /\ video = NewVideo(VideoId123, None)
    /\ ret = NoResult
    /\ pc = "idle"
    /\ locals = NoLocals
    /\ net = <<>>
    /\ cache = NoCache

NextTitle ==
    \/ ~Loaded /\ \E p \in TitlePages : LoadContent(p)
    \/ Loaded /\ ReadTitle

SpecTitle == InitTitle /\ [][NextTitle]_vars

\* the og:title value of the record's raw content: group 1 of the first match
HasOgTitle == Loaded /\ ~NoContent(video) /\ OgTitleMatches(Frags(video)) # <<>>
OgTitleValue == UpToQuote(Head(OgTitleMatches(Frags(video))).v)

Returned(x) == [ok |-> TRUE, val |-> x, exc |-> ""]
Raised(e) == [ok |-> FALSE, val |-> <<>>, exc |-> e]

\* what the network does with one request: an HTTP response with a status and
\* a payload, a transport failure (aiohttp.ClientError) or a timeout
HttpResponse(status, payload) == [kind |-> "response", status |-> status, payload |-> payload]
TransportFailure(nothing) == [kind |-> "client_error", status |-> 0, payload |-> nothing]
TimedOut(nothing) == [kind |-> "timeout", status |-> 0, payload |-> nothing]

\* Client.fetch; raise_for_status raises for a status of 400 and above
Fetch(r) ==
    IF r.kind = "response" /\ r.status = 404 THEN Raised("VideoNotFound")
    ELSE IF r.kind = "response" /\ r.status >= 400 THEN Raised("NetworkError")
    ELSE IF r.kind = "client_error" THEN Raised("NetworkError")
    ELSE IF r.kind = "timeout" THEN Raised("NetworkError")
    ELSE Returned(r.payload)

\* Client.fetch_bytes: only aiohttp.ClientError is caught
FetchBytes(r) ==
    IF r.kind = "response" /\ r.status >= 400 THEN Raised("NetworkError")
    ELSE IF r.kind = "client_error" THEN Raised("NetworkError")
    ELSE IF r.kind = "timeout" THEN Raised("TimeoutError")
    ELSE Returned(r.payload)

\* (mutant) the transform has no fallback to the data it was given
BlurImageNoFallback(image_data, works) == image_data \o "+blur"

\* Image.open and the JPEG save succeed on image bytes only
Decodable(image_data) == image_data = "jpeg"

\* Client._blur_image: the JPEG of the blurred image, or the data unchanged when
\* PIL is missing or the data cannot be processed
BlurImage(image_data, works) ==
    IF works /\ Decodable(image_data) THEN image_data \o "+blur" ELSE image_data

\* a string argument is the sequence of its tokens
StartsWithHttp(s) ==
    Len(s) >= 3 /\ s[1] \in {"http:", "https:"} /\ s[2] = "/" /\ s[3] = "/"

IsDigit(s) == s # <<>> /\ \A i \in 1..Len(s) : s[i] \in Digits

\* (\d+) matched at position i
RECURSIVE DigitRun(_, _)
DigitRun(s, i) ==
    IF i <= Len(s) /\ s[i] \in Digits THEN <<s[i]>> \o DigitRun(s, i + 1) ELSE <<>>

\* REGEX_VIDEO_ID and REGEX_VIDEO_ID_ALT: the positions where they match
VideoIdHits(s) ==
    {i \in 1..Len(s) : i + 3 <= Len(s) /\ s[i] = "/" /\ s[i+1] = "video"
                       /\ s[i+2] = "/" /\ s[i+3] \in Digits}
VideoIdAltHits(s) ==
    {i \in 1..Len(s) : i + 2 <= Len(s) /\ s[i] = "video"
                       /\ s[i+1] \in {"/", "-"} /\ s[i+2] \in Digits}

\* (mutant) the loose pattern tried before the strict one
ExtractVideoIdLooseFirst(url) ==
    IF StartsWithHttp(url) /\ VideoIdAltHits(url) # {}
        THEN Returned(DigitRun(url, Min(VideoIdAltHits(url)) + 2))
    ELSE IF StartsWithHttp(url) /\ VideoIdHits(url) # {}
        THEN Returned(DigitRun(url, Min(VideoIdHits(url)) + 3))
    ELSE IF IsDigit(url) THEN Returned(url)
    ELSE Raised("InvalidURL")

\* Video._extract_video_id
ExtractVideoId(url) ==
    IF StartsWithHttp(url) /\ VideoIdHits(url) # {}
        THEN Returned(DigitRun(url, Min(VideoIdHits(url)) + 3))
    ELSE IF StartsWithHttp(url) /\ VideoIdAltHits(url) # {}
        THEN Returned(DigitRun(url, Min(VideoIdAltHits(url)) + 2))
    ELSE IF IsDigit(url) THEN Returned(url)
    ELSE Raised("InvalidURL")

\* (mutant) the page url built with a /video/ path
PageUrlVideoPath(id) == <<ROOT_URL, "video/">> \o id \o <<"/">>

\* f"{ROOT_URL}{video.video_id}/"
PageUrl(id) == <<ROOT_URL>> \o id \o <<"/">>

\* (mutant) the candidate is asked for a second time
UrlsToTryTwice(id) == <<PageUrl(id), PageUrl(id)>>

\* urls_to_try
UrlsToTry(id) == <<PageUrl(id)>>

\* the url property
UrlValue(v) == IF v.url # None THEN Get(v.url) ELSE PageUrl(v.video_id)

\* len(html_content) > 1000
MinContentLen == 1000

\* the number of requests after which no further command is started
MaxRequests == 2

Request(fn, page, u) == [fn |-> fn, page |-> page, u |-> u]

\* the frame of a running command: the handler's arguments and variables, and
\* those of the Client call it is waiting for
Frame(cmd, video_id, quality, blur_level) ==
    [cmd |-> cmd, video_id |-> video_id, quality |-> quality, blur_level |-> blur_level,
     stage |-> "handler", video |-> None, info_text |-> None,
     urls_to_try |-> <<>>, i |-> 0, html_content |-> None, last_error |-> None,
     base |-> 0, outcomes |-> <<>>,
     thumbnail_url |-> None, image_data |-> None, thumbnail_data |-> None,
     pil_works |-> FALSE, exc |-> ""]

\* Client.get_video up to its first request: the record is built from the
\* argument, or InvalidURL leaves the call
GetVideoEnter(l) ==
    LET id == IF StartsWithHttp(l.video_id) THEN ExtractVideoId(l.video_id)
              ELSE Returned(l.video_id)
    IN IF id.ok
       THEN /\ video' = NewVideo(id.val, None)
            /\ locals' = [l EXCEPT !.urls_to_try = UrlsToTry(id.val), !.i = 1,
                                   !.html_content = None, !.last_error = None,
                                   !.base = Len(net), !.outcomes = <<>>]
            /\ pc' = "fetch"
            /\ ret' = NoResult
       ELSE /\ video' = video
            /\ locals' = [l EXCEPT !.exc = id.exc]
            /\ pc' = "raised"
            /\ ret' = Result("get_video", l.video_id, Raised(id.exc))

\* if html_content and len(html_content) > 1000
AcceptsContent(html_content) == html_content.len > 0 /\ html_content.len > MinContentLen

\* Client.get_video, one turn of the loop over urls_to_try
GetVideoFetch(r) ==
    /\ pc = "fetch"
    /\ locals.i <= Len(locals.urls_to_try)
    /\ LET url == locals.urls_to_try[locals.i]
           out == Fetch(r)
           accepted == IF out.ok THEN AcceptsContent(out.val) ELSE FALSE
       IN /\ net' = Append(net, Request("fetch", url, NoUrl))
          /\ locals' = [locals EXCEPT
                 !.html_content = IF out.ok THEN Some(out.val) ELSE @,
                 !.last_error = IF out.ok THEN @ ELSE Some(out.exc),
                 !.outcomes = Append(@, out),
                 !.i = IF accepted THEN Len(locals.urls_to_try) + 1 ELSE @ + 1]
          /\ video' = IF accepted THEN [video EXCEPT !.url = Some(url)] ELSE video
    /\ UNCHANGED <<ret, pc, cache>>

\* Client.get_video after the loop
GetVideoFinish ==
    /\ pc = "fetch"
    /\ locals.i > Len(locals.urls_to_try)
    /\ IF locals.html_content = None \/ Get(locals.html_content).len = 0
       THEN LET e == IF locals.last_error # None THEN Get(locals.last_error)
                     ELSE "VideoNotFound"
            IN /\ pc' = "raised"
               /\ locals' = [locals EXCEPT !.exc = e]
               /\ ret' = Result("get_video", locals.video_id, Raised(e))
               /\ video' = video
       ELSE /\ pc' = "got_video"
            /\ video' = AfterSetHtmlContent(video, Get(locals.html_content))
            /\ ret' = Result("get_video", locals.video_id, Returned(<<>>))
            /\ locals' = locals
    /\ UNCHANGED <<net, cache>>

(***************************************************************************)
(* Plugin commands                                                         *)
(***************************************************************************)

\* XViewPlugin._cleanup_cache
CleanupCache(c) == [disk |-> c.disk \ Range(c.last), last |-> <<>>]

\* XViewPlugin._save_thumbnail
ThumbPath(id) == <<"thumb_">> \o id \o <<".jpg">>
SaveThumbnail(c, id) ==
    [disk |-> c.disk \cup {ThumbPath(id)}, last |-> Append(c.last, ThumbPath(id))]

\* XViewPlugin._format_error: the message chosen for an exception
FormatError(e) ==
    IF e = "VideoNotFound" THEN "not_found"
    ELSE IF e = "VideoDisabled" THEN "disabled"
    ELSE IF e = "InvalidURL" THEN "invalid_id"
    ELSE IF e = "NetworkError" THEN "network"
    ELSE "unknown"

\* XViewPlugin._format_video_info: the lines built from the fields of the record
FormatVideoInfo(v) ==
    [title |-> TitleValue(v),
     video_id |-> v.video_id,
     qualities |-> SubSeq(AvailableQualities(v), 1, Min({5, Len(AvailableQualities(v))})),
     url |-> UrlValue(v)]

\* a message sent back to the chat: an optional image file and a text
Reply(kind, image, text) == [kind |-> kind, image |-> image, text |-> text]

CommandName(l) == IF l.cmd = "xview" THEN "cmd_video_info" ELSE "cmd_video_link"

\* await client.get_video(video_id), called on the client itself
GetVideo(video_id) ==
    /\ pc = "idle"
    /\ Len(net) < MaxRequests
    /\ GetVideoEnter(Frame("get_video", video_id, <<>>, 0))
    /\ UNCHANGED <<net, cache>>

\* the caller of get_video has the record, or the exception
GetVideoReturn ==
    /\ pc \in {"got_video", "raised"}
    /\ locals.cmd = "get_video"
    /\ pc' = "idle"
    /\ UNCHANGED <<video, ret, locals, net, cache>>

\* /xview_link <ID> [quality] up to the first request
CmdVideoLink(video_id, quality) ==
    /\ pc = "idle"
    /\ Len(net) < MaxRequests
    /\ cache' = CleanupCache(cache)
    /\ net' = net
    /\ IF video_id = <<>>
       THEN /\ ret' = Result("cmd_video_link", video_id, Reply("usage", None, <<>>))
            /\ locals' = Frame("xview_link", video_id, quality, 0)
            /\ UNCHANGED <<video, pc>>
       ELSE GetVideoEnter(Frame("xview_link", video_id, quality, 0))

\* /xview <ID> up to the first request
CmdVideoInfo(video_id, blur_level) ==
    /\ pc = "idle"
    /\ Len(net) < MaxRequests
    /\ cache' = CleanupCache(cache)
    /\ net' = net
    /\ IF video_id = <<>>
       THEN /\ ret' = Result("cmd_video_info", video_id, Reply("usage", None, <<>>))
            /\ locals' = Frame("xview", video_id, <<>>, blur_level)
            /\ UNCHANGED <<video, pc>>
       ELSE GetVideoEnter(Frame("xview", video_id, <<>>, blur_level))

\* cmd_video_link once get_video has returned the record
LinkReply ==
    /\ pc = "got_video"
    /\ locals.cmd = "xview_link"
    /\ LET video_url == GetVideoUrlValue(video, locals.quality)
       IN ret' = Result("cmd_video_link", locals.video_id,
                        IF video_url # None
                        THEN Reply("link", None, <<locals.quality, Get(video_url)>>)
                        ELSE Reply("no_link", None, <<>>))
    /\ video' = AfterExtractVideoSources(video)
    /\ locals' = [locals EXCEPT !.video = Some(video')]
    /\ pc' = "idle"
    /\ UNCHANGED <<net, cache>>

\* cmd_video_info once get_video has returned the record: the text is built,
\* then download_thumbnail starts with a get_video of its own
InfoFormat ==
    /\ pc = "got_video"
    /\ locals.cmd = "xview"
    /\ locals.stage = "handler"
    /\ GetVideoEnter([locals EXCEPT
           !.video = Some(AfterExtractVideoSources(AfterTitle(video))),
           !.info_text = Some(FormatVideoInfo(video)),
           !.stage = "download_thumbnail"])
    /\ UNCHANGED <<net, cache>>

\* Client.download_thumbnail once its get_video has returned: without a
\* thumbnail url it returns None and cmd_video_info replies with the text alone
ThumbnailLookup ==
    /\ pc = "got_video"
    /\ locals.stage = "download_thumbnail"
    /\ video' = AfterThumbnail(video)
    /\ IF ThumbnailValue(video) = None
       THEN /\ ret' = Result("cmd_video_info", locals.video_id,
                             Reply("info", None, Get(locals.info_text)))
            /\ pc' = "idle"
            /\ locals' = locals
       ELSE /\ pc' = "fetch_bytes"
            /\ locals' = [locals EXCEPT !.thumbnail_url = ThumbnailValue(video)]
            /\ ret' = ret
    /\ UNCHANGED <<net, cache>>

\* Client.download_thumbnail after fetch_bytes, and the rest of cmd_video_info
ThumbnailFetched(r, pil_works) ==
    /\ pc = "fetch_bytes"
    /\ net' = Append(net, Request("fetch_bytes", <<>>, Get(locals.thumbnail_url)))
    /\ LET out == FetchBytes(r)
           thumbnail_data ==
               IF ~out.ok THEN None
               ELSE IF locals.blur_level > 0
                   THEN Some(BlurImage(out.val, pil_works))
               ELSE Some(out.val)
           id == Get(locals.video).video_id
       IN /\ locals' = [locals EXCEPT
                 !.image_data = IF out.ok THEN Some(out.val) ELSE None,
                 !.thumbnail_data = thumbnail_data,
                 !.pil_works = pil_works]
          /\ IF thumbnail_data # None /\ Get(thumbnail_data) # ""
             THEN /\ cache' = SaveThumbnail(cache, id)
                  /\ ret' = Result("cmd_video_info", locals.video_id,
                                   Reply("info", Some(ThumbPath(id)), Get(locals.info_text)))
             ELSE /\ cache' = cache
                  /\ ret' = Result("cmd_video_info", locals.video_id,
                                   Reply("info", None, Get(locals.info_text)))
    /\ pc' = "idle"
    /\ video' = video

\* except Exception as e: the reply is the message of _format_error
ErrorReply ==
    /\ pc = "raised"
    /\ locals.cmd # "get_video"
    /\ ret' = Result(CommandName(locals), locals.video_id,
                     Reply("error", None, FormatError(locals.exc)))
    /\ pc' = "idle"
    /\ UNCHANGED <<video, locals, net, cache>>

(***************************************************************************)
(* SpecClient: the /xview and /xview_link commands against any network     *)
(***************************************************************************)

Thumb == Url("thumb", TRUE, <<>>, <<>>)                \* https://cdn/thumb.jpg

EmptyPage == Body(0, <<>>)
ShortPage == Body(500, <<OgTitleMeta(TitleA), SourceTag(U720)>>)
EdgePage == Body(1000, <<OgTitleMeta(TitleA)>>)
FullPage == Body(1200, <<OgTitleMeta(TitleB), OgImageMeta(Thumb), SourceTag(U720)>>)
PlainPage == Body(1200, <<TitleTag(SiteTitle)>>)
DisabledPage == Body(1200, <<OgTitleMeta(TitleA), DisabledMarker, OgImageMeta(Thumb)>>)

ClientPages == {EmptyPage, ShortPage, EdgePage, FullPage, PlainPage, DisabledPage}

PageResponses ==
    {HttpResponse(200, p) : p \in ClientPages}
    \cup {HttpResponse(404, EmptyPage), HttpResponse(500, EmptyPage),
          TransportFailure(EmptyPage), TimedOut(EmptyPage)}

BytesResponses ==
    {HttpResponse(200, "jpeg"), HttpResponse(200, "html"), HttpResponse(200, ""),
     HttpResponse(404, ""), TransportFailure(""), TimedOut("")}

ClientInputs ==
    {<<>>,
     VideoId123,
     <<"alice">>,
     <<"https:", "/", "/", "secure.xview.tv", "/", "video", "/", "1", "2", "3">>,
     <<"https:", "/", "/", "secure.xview.tv", "/", "alice", "/">>}

ClientTokens == {BEST, T720}
BlurLevels == {0, 60}

InitClient ==
    /\ video = NewVideo(VideoId123, None)
    /\ ret = NoResult
    /\ pc = "idle"
    /\ locals = NoLocals
    /\ net = <<>>
    /\ cache = NoCache

NextClient ==
    \/ \E video_id \in ClientInputs, quality \in ClientTokens : CmdVideoLink(video_id, quality)
    \/ \E video_id \in ClientInputs, blur_level \in BlurLevels : CmdVideoInfo(video_id, blur_level)
    \/ \E r \in PageResponses : GetVideoFetch(r)
    \/ GetVideoFinish
    \/ LinkReply
    \/ InfoFormat
    \/ ThumbnailLookup
    \/ \E r \in BytesResponses, pil_works \in BOOLEAN : ThumbnailFetched(r, pil_works)
    \/ ErrorReply

SpecClient == InitClient /\ [][NextClient]_vars

\* C2: a fetched body shorter than the minimum length (1000 characters) is never
\* accepted by get_video: it is not loaded into the record and no record is
\* returned
C2_ShortBodyRejected ==
    /\ (ret.op = "get_video" /\ ret.val.ok) =>
           Get(locals.html_content).len >= MinContentLen
    /\ video.html_content # None => Get(video.html_content).len >= MinContentLen

\* C5: a request whose fetched content matches a disabled marker never ends
\* with fields extracted from that content
C5_DisabledContentRefused ==
    (/\ ret.op \in {"cmd_video_info", "cmd_video_link"}
     /\ ret.val.kind \in {"info", "link", "no_link"})
        => ~DisabledMatch(Frags(Get(locals.video)))

(***************************************************************************)
(* Client.search and /xview_search                                         *)
(***************************************************************************)

\* the pieces of a listing page that the patterns of _parse_search_results
\* recognise; an id is the sequence of its characters
RoomLink(id) == Frag("room_link", id, NoUrl, NoJson)   \* <a href="/room/id">
DataAttr(id) == Frag("data_attr", id, NoUrl, NoJson)   \* data-username="id"
JsonPair(id) == Frag("json_pair", id, NoUrl, NoJson)   \* "username": "id"

StartsWith(s, prefix) == Len(s) >= Len(prefix) /\ SubSeq(s, 1, Len(prefix)) = prefix

\* room_id.startswith(('css', 'js', 'static'))
AssetPrefixes == {<<"c", "s", "s">>, <<"j", "s">>, <<"s", "t", "a", "t", "i", "c">>}
IsAsset(id) == \E prefix \in AssetPrefixes : StartsWith(id, prefix)

\* finditer of one pattern: the captured ids in page order
Captures(frags, kind) ==
    LET hits == SelectSeq(frags, LAMBDA f : f.k = kind)
    IN [i \in 1..Len(hits) |-> hits[i].v]

\* (mutant) the loop over the anchors without the seen_ids test
RECURSIVE KeepRoomsSeenAgain(_, _)
KeepRoomsSeenAgain(results, ids) ==
    IF ids = <<>> THEN results
    ELSE KeepRoomsSeenAgain(IF Head(ids) # <<>> /\ ~IsAsset(Head(ids))
                            THEN Append(results, Head(ids)) ELSE results,
                            Tail(ids))

\* the loop over the anchors: an id that is new and not an asset path is kept
RECURSIVE KeepRooms(_, _)
KeepRooms(results, ids) ==
    IF ids = <<>> THEN results
    ELSE KeepRooms(IF Head(ids) # <<>> /\ Head(ids) \notin Range(results) /\ ~IsAsset(Head(ids))
                   THEN Append(results, Head(ids)) ELSE results,
                   Tail(ids))

\* the loop over the data attributes: an id that is new is kept
RECURSIVE KeepUsernames(_, _)
KeepUsernames(results, ids) ==
    IF ids = <<>> THEN results
    ELSE KeepUsernames(IF Head(ids) # <<>> /\ Head(ids) \notin Range(results)
                       THEN Append(results, Head(ids)) ELSE results,
                       Tail(ids))

\* the loop over the JSON pairs: an id that is new and longer than two
\* characters is kept
RECURSIVE KeepJsonRooms(_, _)
KeepJsonRooms(results, ids) ==
    IF ids = <<>> THEN results
    ELSE KeepJsonRooms(IF Head(ids) # <<>> /\ Head(ids) \notin Range(results) /\ Len(Head(ids)) > 2
                       THEN Append(results, Head(ids)) ELSE results,
                       Tail(ids))

\* results[:20]
MaxSearchResults == 20

SearchItem(id) == [video_id |-> id, url |-> PageUrl(id), thumbnail |-> ""]

\* (mutant) every strategy runs and the hits are merged
ParseSearchResultsMerged(html_content) ==
    LET rooms == KeepRooms(<<>>, Captures(html_content.frags, "room_link"))
        names == KeepUsernames(rooms, Captures(html_content.frags, "data_attr"))
        ids == KeepJsonRooms(names, Captures(html_content.frags, "json_pair"))
        kept == SubSeq(ids, 1, Min({MaxSearchResults, Len(ids)}))
    IN [i \in 1..Len(kept) |-> SearchItem(kept[i])]

\* Client._parse_search_results
ParseSearchResults(html_content) ==
    LET rooms == KeepRooms(<<>>, Captures(html_content.frags, "room_link"))
        names == IF rooms # <<>> THEN rooms
                 ELSE KeepUsernames(<<>>, Captures(html_content.frags, "data_attr"))
        ids == IF names # <<>> THEN names
               ELSE KeepJsonRooms(<<>>, Captures(html_content.frags, "json_pair"))
        kept == SubSeq(ids, 1, Min({MaxSearchResults, Len(ids)}))
    IN [i \in 1..Len(kept) |-> SearchItem(kept[i])]

\* the candidate listing urls of a query, in the order they are tried
SearchUrls(query, page) ==
    << <<ROOT_URL, "?keywords=">> \o query \o <<"&page=", page>>,
       <<ROOT_URL, "search/">> \o query \o <<"/?page=", page>>,
       <<ROOT_URL, "tag/">> \o query \o <<"/?page=", page>>,
       <<ROOT_URL, "api/public/cams/?keywords=">> \o query \o <<"&page=", page>> >>

\* (mutant) the listing of a candidate accepted even when it is empty
AcceptsAnyListing(videos) == TRUE

\* if videos: return videos
AcceptsListing(videos) == videos # <<>>

\* the frame of a running search; base is the number of requests issued before
\* it, outcomes the history of what fetch gave in each turn of the loop
SearchFrame(cmd, query, page) ==
    [cmd |-> cmd, query |-> query, page |-> page,
     search_urls |-> SearchUrls(query, page), i |-> 1,
     base |-> Len(net), outcomes |-> <<>>]

\* Client.search(query, page) up to the first request
Search(query, page) ==
    /\ pc = "idle"
    /\ Len(net) < MaxRequests
    /\ locals' = SearchFrame("search", query, page)
    /\ pc' = "search_fetch"
    /\ ret' = NoResult
    /\ UNCHANGED <<video, net, cache>>

\* /xview_search <query> up to the first request
CmdSearch(query) ==
    /\ pc = "idle"
    /\ Len(net) < MaxRequests
    /\ cache' = CleanupCache(cache)
    /\ locals' = SearchFrame("xview_search", query, "1")
    /\ IF query = <<>>
       THEN /\ ret' = Result("cmd_search", query, Reply("usage", None, <<>>))
            /\ pc' = pc
       ELSE /\ ret' = NoResult
            /\ pc' = "search_fetch"
    /\ UNCHANGED <<video, net>>

\* Client.search, one turn of the loop over search_urls
SearchFetch(r) ==
    /\ pc = "search_fetch"
    /\ locals.i <= Len(locals.search_urls)
    /\ net' = Append(net, Request("fetch", locals.search_urls[locals.i], NoUrl))
    /\ LET out == Fetch(r)
           videos == IF out.ok THEN ParseSearchResults(out.val) ELSE <<>>
       IN IF out.ok /\ AcceptsListing(videos)
          THEN /\ ret' = Result("search", locals.query, Returned(videos))
               /\ pc' = IF locals.cmd = "search" THEN "idle" ELSE "searched"
               /\ locals' = [locals EXCEPT !.outcomes = Append(@, out)]
          ELSE /\ ret' = ret
               /\ pc' = pc
               /\ locals' = [locals EXCEPT !.outcomes = Append(@, out), !.i = @ + 1]
    /\ UNCHANGED <<video, cache>>

\* Client.search after the loop: return []
SearchFinish ==
    /\ pc = "search_fetch"
    /\ locals.i > Len(locals.search_urls)
    /\ ret' = Result("search", locals.query, Returned(<<>>))
    /\ pc' = IF locals.cmd = "search" THEN "idle" ELSE "searched"
    /\ UNCHANGED <<video, locals, net, cache>>

\* cmd_search once search has returned: the ids of the first ten results
SearchReply ==
    /\ pc = "searched"
    /\ LET results == ret.val.val
           shown == SubSeq(results, 1, Min({10, Len(results)}))
       IN ret' = Result("cmd_search", locals.query,
                        IF results # <<>>
                        THEN Reply("results", None, [i \in 1..Len(shown) |-> shown[i].video_id])
                        ELSE Reply("no_results", None, <<>>))
    /\ pc' = "idle"
    /\ UNCHANGED <<video, locals, net, cache>>

(***************************************************************************)
(* SpecSearch: searches against any network                                *)
(***************************************************************************)

Ali == <<"a", "l", "i">>
Bob == <<"b", "o", "b">>
Bo == <<"b", "o">>
Jsx == <<"j", "s", "x">>

RoomsPage == Body(1200, <<RoomLink(Ali), RoomLink(Jsx), RoomLink(Ali), RoomLink(Bob)>>)
AttrsPage == Body(1200, <<RoomLink(Jsx), DataAttr(Bo), DataAttr(Bo), JsonPair(Ali)>>)
JsonPage == Body(500, <<JsonPair(Bo), JsonPair(Ali)>>)
NoHitsPage == Body(1200, <<RoomLink(Jsx), JsonPair(Bo)>>)

ListingPages == {RoomsPage, AttrsPage, JsonPage, NoHitsPage}

SearchResponses ==
    {HttpResponse(200, p) : p \in ListingPages}
    \cup {HttpResponse(404, EmptyPage), HttpResponse(500, EmptyPage),
          TransportFailure(EmptyPage), TimedOut(EmptyPage)}

Cat == <<"c", "a", "t">>
Queries == {<<>>, Cat}
PageNumbers == {"1", "2"}

InitSearch ==
    /\ video = NewVideo(VideoId123, None)
    /\ ret = NoResult
    /\ pc = "idle"
    /\ locals = NoLocals
    /\ net = <<>>
    /\ cache = NoCache

NextSearch ==
    \/ \E query \in Queries, page \in PageNumbers : Search(query, page)
    \/ \E query \in Queries : CmdSearch(query)
    \/ \E r \in SearchResponses : SearchFetch(r)
    \/ SearchFinish
    \/ SearchReply

SpecSearch == InitSearch /\ [][NextSearch]_vars

\* a search is running or has just returned to its caller
InSearch == pc \in {"search_fetch", "searched"} \/ ret.op = "search"
SearchReturned == ret.op = "search"

\* the requests of this search, and the turns that gave a non-empty listing
SearchRequests == SubSeq(net, locals.base + 1, Len(net))
Turns == Len(locals.outcomes)
HitTurns ==
    {k \in 1..Turns : locals.outcomes[k].ok
                      /\ ParseSearchResults(locals.outcomes[k].val) # <<>>}

\* the four candidates in the order keyword query, search path, tag path, API path
CandidateOrder == <<"?keywords=", "search/", "tag/", "api/public/cams/?keywords=">>

\* C10: search fetches its candidate urls strictly in the order keyword query,
\* search path, tag path, API path; it returns the hits of the first candidate
\* whose fetch succeeds with a non-empty parse and fetches none after it; when
\* every candidate fails or yields nothing it returns the empty list, and it
\* never raises, the empty query included
C10_SearchFirstHit ==
    InSearch =>
        /\ Turns <= Len(CandidateOrder)
        /\ Len(SearchRequests) = Turns
        /\ \A k \in 1..Turns :
               /\ SearchRequests[k].fn = "fetch"
               /\ SearchRequests[k].page[1] = ROOT_URL
               /\ SearchRequests[k].page[2] = CandidateOrder[k]
               /\ SubSeq(SearchRequests[k].page, 3, 2 + Len(locals.query)) = locals.query
        /\ ~SearchReturned => HitTurns = {}
        /\ SearchReturned =>
               /\ ret.val.ok
               /\ IF HitTurns # {}
                  THEN /\ HitTurns = {Turns}
                       /\ ret.val.val = ParseSearchResults(locals.outcomes[Turns].val)
                  ELSE /\ Turns = Len(CandidateOrder)
                       /\ ret.val.val = <<>>

\* the keyword query failed, the search path gave a page without hits, the tag
\* path gave two rooms: they are returned and the API path is not fetched
C10_Witness ==
    /\ SearchReturned
    /\ locals.query = Cat
    /\ Turns = 3
    /\ ~locals.outcomes[1].ok
    /\ locals.outcomes[2] = Returned(NoHitsPage)
    /\ locals.outcomes[3] = Returned(RoomsPage)
    /\ ret.val.val = <<SearchItem(Ali), SearchItem(Bob)>>

(***************************************************************************)
(* SpecParse: _parse_search_results on any listing page                    *)
(***************************************************************************)

ListingFrags ==
    {RoomLink(Ali), RoomLink(Bob), RoomLink(Jsx), DataAttr(Bo), DataAttr(Ali),
     JsonPair(Bo), JsonPair(Ali), JsonPair(Bob)}

MaxListingFrags == 3

\* long listings: n anchors (or attributes, or JSON pairs) with the ids u01,
\* u02, ..., the first of them repeated at the end
DigitChars == <<"0", "1", "2", "3", "4", "5", "6", "7", "8", "9">>
IdOf(n) == <<"u", DigitChars[(n \div 10) + 1], DigitChars[(n % 10) + 1]>>
LongListing(kind, n) ==
    [i \in 1..(n + 1) |-> Frag(kind, IdOf(IF i <= n THEN i ELSE 1), NoUrl, NoJson)]

MaxListingIds == 22

ListingInputs ==
    {Body(1200, f) : f \in SeqsUpTo(ListingFrags, MaxListingFrags)}
    \cup {Body(1200, LongListing(kind, n)) :
              kind \in {"room_link", "data_attr", "json_pair"},
              n \in (MaxSearchResults - 1)..MaxListingIds}
    \cup {Body(1200, <<RoomLink(Jsx)>> \o LongListing("data_attr", n) \o <<JsonPair(Ali)>>) :
              n \in (MaxSearchResults - 1)..MaxListingIds}

InitParse ==
    /\ video = NewVideo(VideoId123, None)
    /\ ret = NoResult
    /\ pc = "idle"
    /\ locals \in {[op |-> "parse", html_content |-> p] : p \in ListingInputs}
    /\ net = <<>>
    /\ cache = NoCache

\* self._parse_search_results(html_content)
ParseListing ==
    /\ pc = "idle"
    /\ ret.op = "none"
    /\ ret' = Result("_parse_search_results", <<>>, ParseSearchResults(locals.html_content))
    /\ UNCHANGED <<video, pc, locals, net, cache>>

NextParse == ParseListing

SpecParse == InitParse /\ [][NextParse]_vars

Parsed == ret.op = "_parse_search_results"
ParsedIds == [i \in 1..Len(ret.val) |-> ret.val[i].video_id]

\* the ids a strategy finds in the parsed page
IdsOfKind(kind) ==
    {f.v : f \in {g \in Range(locals.html_content.frags) : g.k = kind}}
AnchorHits == {id \in IdsOfKind("room_link") : ~IsAsset(id)}
AttrHits == IdsOfKind("data_attr")
JsonHits == {id \in IdsOfKind("json_pair") : Len(id) > 2}

\* the strategy that answers: the first one in priority order with a hit
Answering ==
    IF AnchorHits # {} THEN "room_link"
    ELSE IF AttrHits # {} THEN "data_attr"
    ELSE "json_pair"
AnsweringHits ==
    IF AnchorHits # {} THEN AnchorHits ELSE IF AttrHits # {} THEN AttrHits ELSE JsonHits

\* C11: the hits returned are those of one strategy, the first of anchor
\* links, data-* attributes, JSON pairs that finds any; the hits of a later
\* strategy are never added to them
C11_OneStrategy ==
    Parsed =>
        /\ Range(ParsedIds) \subseteq AnsweringHits
        /\ Len(ParsedIds) = Min({MaxSearchResults, Cardinality(AnsweringHits)})

\* an asset anchor is no hit, so the data attribute answers and the JSON pair
\* of the same page is left out
C11_Witness ==
    /\ Parsed
    /\ locals.html_content.frags = <<RoomLink(Jsx), DataAttr(Bo), JsonPair(Ali)>>
    /\ ParsedIds = <<Bo>>

\* position of the first fragment of the answering strategy that holds the id
FirstFound(id) ==
    Min({i \in 1..Len(locals.html_content.frags) :
            /\ locals.html_content.frags[i].k = Answering
            /\ locals.html_content.frags[i].v = id})

\* C12: the list has at most 20 entries, no id twice, the ids in the order in
\* which the page first shows them, each with url = root + id + "/" and an
\* empty thumbnail
C12_CappedDistinctOrdered ==
    Parsed =>
        /\ Len(ret.val) <= 20
        /\ \A i, j \in 1..Len(ret.val) :
               i < j => /\ ParsedIds[i] # ParsedIds[j]
                        /\ FirstFound(ParsedIds[i]) < FirstFound(ParsedIds[j])
        /\ \A i \in 1..Len(ret.val) :
               /\ ret.val[i].url = <<ROOT_URL>> \o ParsedIds[i] \o <<"/">>
               /\ ret.val[i].thumbnail = ""

\* 22 distinct anchors and a repeated one give the first 20 ids
C12_Witness ==
    /\ Parsed
    /\ locals.html_content.frags = LongListing("room_link", 22)
    /\ ParsedIds = [i \in 1..20 |-> IdOf(i)]

(***************************************************************************)
(* SpecFetch: one request of Client.fetch or Client.fetch_bytes against    *)
(* any outcome of the network                                              *)
(***************************************************************************)

\* final statuses of a response: success, a redirect that is not followed
\* (no Location header, 304), client and server errors
Statuses == {200, 201, 204, 300, 304, 400, 403, 404, 500, 503}

FetchOutcomes ==
    {HttpResponse(st, p) : st \in Statuses, p \in ClientPages}
    \cup {TransportFailure(EmptyPage), TimedOut(EmptyPage)}

FetchBytesOutcomes ==
    {HttpResponse(st, b) : st \in Statuses, b \in {"jpeg", ""}}
    \cup {TransportFailure(""), TimedOut("")}

InitFetch ==
    /\ video = NewVideo(VideoId123, None)
    /\ ret = NoResult
    /\ pc = "idle"
    /\ locals \in {[op |-> "fetch", r |-> r] : r \in FetchOutcomes}
                  \cup {[op |-> "fetch_bytes", r |-> r] : r \in FetchBytesOutcomes}
    /\ net = <<>>
    /\ cache = NoCache

\* await self.fetch(url)
FetchCall ==
    /\ pc = "idle"
    /\ ret.op = "none"
    /\ locals.op = "fetch"
    /\ net' = Append(net, Request("fetch", PageUrl(VideoId123), NoUrl))
    /\ ret' = Result("fetch", <<>>, Fetch(locals.r))
    /\ UNCHANGED <<video, pc, locals, cache>>

\* await self.fetch_bytes(url)
FetchBytesCall ==
    /\ pc = "idle"
    /\ ret.op = "none"
    /\ locals.op = "fetch_bytes"
    /\ net' = Append(net, Request("fetch_bytes", <<>>, Thumb))
    /\ ret' = Result("fetch_bytes", <<>>, FetchBytes(locals.r))
    /\ UNCHANGED <<video, pc, locals, cache>>

NextFetch ==
    \/ FetchCall
    \/ FetchBytesCall

SpecFetch == InitFetch /\ [][NextFetch]_vars

SuccessStatus(r) == r.kind = "response" /\ r.status \in 200..299

\* C13: fetch raises VideoNotFound on status 404, NetworkError on any other
\* non-success status, on a transport failure and on a timeout, and returns the
\* body text only on a success status
C13_FetchErrorKinds ==
    ret.op = "fetch" =>
        /\ (locals.r.kind = "response" /\ locals.r.status = 404)
               => (~ret.val.ok /\ ret.val.exc = "VideoNotFound")
        /\ (~SuccessStatus(locals.r) /\ ~(locals.r.kind = "response" /\ locals.r.status = 404))
               => (~ret.val.ok /\ ret.val.exc = "NetworkError")
        /\ SuccessStatus(locals.r) => (ret.val.ok /\ ret.val.val = locals.r.payload)

\* C14: every failure of fetch_bytes is a NetworkError, and a non-success
\* status, a transport failure and a timeout all fail
C14_FetchBytesNetworkError ==
    ret.op = "fetch_bytes" =>
        /\ ~ret.val.ok => ret.val.exc = "NetworkError"
        /\ locals.r.kind \in {"client_error", "timeout"} => ~ret.val.ok
        /\ (locals.r.kind = "response" /\ locals.r.status >= 400) => ~ret.val.ok

(***************************************************************************)
(* SpecResolve: get_video on any input string, then reads and reloads of   *)
(* the record it returned                                                  *)
(***************************************************************************)

\* an input is a sequence of tokens; with Scheme in front it is URL-shaped
UrlTokens == {"/", "video", "-", "7"}
Scheme == <<"https:", "/", "/">>

MaxUrlTokens == 4

\* https://video-8/video/7 and https://video/8/video-7: both patterns match,
\* at different places; video-78x: digits followed by a letter
TwoMatches ==
    {<<"video", "-", "8", "/", "video", "/", "7">>,
     <<"video", "/", "8", "/", "video", "-", "7">>,
     <<"x", "video", "-", "7", "8", "x">>}

ResolveInputs ==
    LET texts == SeqsUpTo(UrlTokens, MaxUrlTokens) \cup TwoMatches
    IN texts \cup {Scheme \o t : t \in texts}

ResolveResponses ==
    {HttpResponse(200, FullPage), HttpResponse(200, ShortPage),
     HttpResponse(404, EmptyPage), TimedOut(EmptyPage)}

InitResolve ==
    /\ video = NewVideo(VideoId123, None)
    /\ ret = NoResult
    /\ pc = "idle"
    /\ locals = NoLocals
    /\ net = <<>>
    /\ cache = NoCache

Resolved == pc = "idle" /\ locals # NoLocals /\ ~NoContent(video)

NextResolve ==
    \/ locals = NoLocals /\ \E video_id \in ResolveInputs : GetVideo(video_id)
    \/ \E r \in ResolveResponses : GetVideoFetch(r)
    \/ GetVideoFinish
    \/ GetVideoReturn
    \/ Resolved /\ ReadTitle
    \/ Resolved /\ GetVideoUrl(BEST)
    \/ Resolved /\ SetHtmlContent(PlainPage)

SpecResolve == InitResolve /\ [][NextResolve]_vars

\* a get_video call has been made with this argument
Called == locals # NoLocals
Argument == locals.video_id
UrlShaped == Argument[1] \in {"http:", "https:"} /\ Argument[2] = "/" /\ Argument[3] = "/"
IsUrlShaped == Len(Argument) >= 3 /\ UrlShaped
Failed(e) == ret.op = "get_video" /\ ~ret.val.ok /\ ret.val.exc = e

\* the places of the argument where a literal followed by a digit starts
Places(literal) ==
    {i \in 1..Len(Argument) :
        /\ i + Len(literal) <= Len(Argument)
        /\ SubSeq(Argument, i, i + Len(literal) - 1) = literal
        /\ Argument[i + Len(literal)] \in Digits}
StrictPlaces == Places(<<"/", "video", "/">>)
LoosePlaces == Places(<<"video", "/">>) \cup Places(<<"video", "-">>)

\* t is the longest run of digits of the argument that starts at position i
DigitsAt(i, t) ==
    /\ t # <<>>
    /\ SubSeq(Argument, i, i + Len(t) - 1) = t
    /\ \A k \in 1..Len(t) : t[k] \in Digits
    /\ (i + Len(t) <= Len(Argument) => Argument[i + Len(t)] \notin Digits)

\* C15: for URL-shaped input the id is the digits of the first
\* /video/<digits> match, else those of the first video/<digits> or
\* video-<digits> match, else get_video fails with InvalidURL and no request is
\* issued
C15_UrlIdExtraction ==
    (Called /\ IsUrlShaped) =>
        IF StrictPlaces # {} THEN DigitsAt(Min(StrictPlaces) + 3, video.video_id)
        ELSE IF LoosePlaces # {} THEN DigitsAt(Min(LoosePlaces) + 2, video.video_id)
        ELSE Failed("InvalidURL") /\ net = <<>> /\ pc \in {"raised", "idle"}

\* https://video-8/video/7: the loose pattern matches first in the text, the
\* strict one decides, and the page of id 7 is requested
C15_Witness ==
    /\ Called
    /\ Argument = Scheme \o <<"video", "-", "8", "/", "video", "/", "7">>
    /\ video.video_id = <<"7">>
    /\ net = <<Request("fetch", <<ROOT_URL, "7", "/">>, NoUrl)>>
    /\ ret.op = "get_video" /\ ret.val.ok

\* C16: for input that is not URL-shaped the record's video_id is the input
\* unchanged, the url requested is site root + id + "/", and video_id stays the
\* same through every later read and reload of the record
C16_IdIsInput ==
    (Called /\ ~IsUrlShaped) =>
        /\ video.video_id = Argument
        /\ ~Failed("InvalidURL")
        /\ \A i \in 1..Len(net) :
               net[i] = Request("fetch", <<ROOT_URL>> \o Argument \o <<"/">>, NoUrl)
        /\ pc = "idle" => Len(net) = 1

\* the numeric input 7 came back as the id of the record, which has since been
\* read and reloaded
C16_Witness ==
    /\ Called /\ Argument = <<"7">>
    /\ video.video_id = <<"7">>
    /\ ret.op = "set_html_content"
    /\ video.dict["title"] # None

(***************************************************************************)
(* SpecSelect, continued: the quality list and sources of unknown quality  *)
(***************************************************************************)

QualitiesRead == ret.op = "available_qualities"

\* C17: available_qualities is strictly descending, so without duplicates,
\* holds no value <= 0, and holds exactly the positive quality values of the
\* media-source list
C17_QualitiesDescendingPositive ==
    QualitiesRead =>
        /\ \A i, j \in 1..Len(ret.val) : i < j => ret.val[i] > ret.val[j]
        /\ \A i \in 1..Len(ret.val) : ret.val[i] > 0
        /\ Range(ret.val) = {q \in Range(HeldQualities) : q > 0}

\* two sources of 720, one of unknown quality and one of 1080 are listed as
\* 1080, 720
C17_Witness ==
    /\ QualitiesRead
    /\ HeldQualities = <<720, 0, 720, 1080>>
    /\ ret.val = <<1080, 720>>

\* the source that was returned carries a quality token in its url
KnownQualityReturned == ret.val # None /\ Get(ret.val).qs # <<>>

\* C18: a source without a quality token has quality 0 and, for every token
\* but "worst", is not returned while the chosen subset holds a source of
\* positive quality
C18_UnknownNeverPreferred ==
    (ret.op = "get_video_url" /\ Held # <<>>) =>
        /\ \A i \in 1..Len(Held) : Held[i].url.qs = <<>> => Held[i].quality = 0
        /\ (ret.arg # WORST /\ \E i \in ChosenIdx(Held) : Held[i].quality > 0)
               => KnownQualityReturned

DurationMeta(v) == Frag("duration_meta", v, NoUrl, NoJson)  \* <meta property="video:duration" content="v">
DurationAssign(v) == Frag("duration_alt", v, NoUrl, NoJson) \* duration: v, duration="v", ...

\* REGEX_VIDEO_DURATION.finditer: the metas whose content is all digits
DurationMetaCaptures(frags) ==
    LET hits == SelectSeq(frags, LAMBDA f : f.k = "duration_meta" /\ IsDigit(f.v))
    IN [i \in 1..Len(hits) |-> hits[i].v]

\* REGEX_VIDEO_DURATION_ALT inside the text of a JSON value: a key that ends
\* in "duration" with a string value that starts with a digit
RECURSIVE DurationAltInJson(_)
RECURSIVE DurationAltInPairs(_)
DurationAltInJson(j) ==
    CASE j.t = "obj"  -> DurationAltInPairs(j.items)
      [] j.t = "list" ->
            IF j.items = <<>> THEN <<>>
            ELSE DurationAltInJson(Head(j.items)) \o DurationAltInJson(JList(Tail(j.items)))
      [] OTHER        -> <<>>
DurationAltInPairs(pairs) ==
    IF pairs = <<>> THEN <<>>
    ELSE LET p == Head(pairs)
             here == IF p.key = "duration" /\ p.val.t = "str" /\ DigitRun(p.val.s, 1) # <<>>
                     THEN <<DigitRun(p.val.s, 1)>>
                     ELSE DurationAltInJson(p.val)
         IN here \o DurationAltInPairs(Tail(pairs))

\* REGEX_VIDEO_DURATION_ALT.finditer over the whole body, in page order
RECURSIVE DurationAltCaptures(_)
DurationAltCaptures(frags) ==
    IF frags = <<>> THEN <<>>
    ELSE LET f == Head(frags)
             here == IF f.k = "duration_alt" /\ DigitRun(f.v, 1) # <<>>
                         THEN <<DigitRun(f.v, 1)>>
                     ELSE IF f.k = "json_ld" THEN DurationAltInJson(f.j)
                     ELSE <<>>
         IN here \o DurationAltCaptures(Tail(frags))

\* (?:(\d+)X)? at position i of s, case-insensitive: the digits and the
\* position after the group, or no digits and the same position
IsoGroup(s, i, letters) ==
    LET run == DigitRun(s, i)
    IN IF run # <<>> /\ i + Len(run) <= Len(s) /\ s[i + Len(run)] \in letters
       THEN [digits |-> run, next |-> i + Len(run) + 1]
       ELSE [digits |-> <<>>, next |-> i]

\* (mutant) the minutes counted as seconds
ParseIsoDurationFlat(s) ==
    IF Len(s) >= 2 /\ s[1] \in {"P", "p"} /\ s[2] \in {"T", "t"}
    THEN LET h == IsoGroup(s, 3, {"H", "h"})
             m == IsoGroup(s, h.next, {"M", "m"})
             sec == IsoGroup(s, m.next, {"S", "s"})
         IN IntOf(h.digits) * 3600 + IntOf(m.digits) + IntOf(sec.digits)
    ELSE 0

\* Video._parse_iso_duration
ParseIsoDuration(s) ==
    IF Len(s) >= 2 /\ s[1] \in {"P", "p"} /\ s[2] \in {"T", "t"}
    THEN LET h == IsoGroup(s, 3, {"H", "h"})
             m == IsoGroup(s, h.next, {"M", "m"})
             sec == IsoGroup(s, m.next, {"S", "s"})
         IN IntOf(h.digits) * 3600 + IntOf(m.digits) * 60 + IntOf(sec.digits)
    ELSE 0

\* the body of the duration property
DurationCompute(v) ==
    IF NoContent(v) THEN None
    ELSE IF DurationMetaCaptures(Frags(v)) # <<>>
        THEN Some(IntOf(Head(DurationMetaCaptures(Frags(v)))))
    ELSE IF DurationAltCaptures(Frags(v)) # <<>>
        THEN Some(IntOf(Head(DurationAltCaptures(Frags(v)))))
    ELSE IF /\ "duration" \in DOMAIN ParseJsonLdValue(v)
            /\ ParseJsonLdValue(v)["duration"].t = "str"
            /\ StartsWith(ParseJsonLdValue(v)["duration"].s, <<"P", "T">>)
        THEN Some(ParseIsoDuration(ParseJsonLdValue(v)["duration"].s))
    ELSE None

\* cached_property duration: the value a read returns, and the object afterwards
DurationValue(v) ==
    IF v.dict["duration"] # None THEN Get(v.dict["duration"]) ELSE DurationCompute(v)

AfterDuration(v) ==
    IF v.dict["duration"] # None THEN v
    ELSE [(IF /\ ~NoContent(v)
              /\ DurationMetaCaptures(Frags(v)) = <<>>
              /\ DurationAltCaptures(Frags(v)) = <<>>
           THEN AfterParseJsonLd(v) ELSE v)
             EXCEPT !.dict["duration"] = Some(DurationCompute(v))]

\* str(n), and f"{n:02d}"
RECURSIVE Decimal(_)
Decimal(n) ==
    IF n < 10 THEN <<DigitChars[n + 1]>>
    ELSE Decimal(n \div 10) \o <<DigitChars[(n % 10) + 1]>>
TwoDigits(n) == IF n < 10 THEN <<"0">> \o Decimal(n) ELSE Decimal(n)

\* the body of duration_formatted on a duration
FormatDuration(duration) ==
    LET hours == duration \div 3600
        remainder == duration % 3600
        minutes == remainder \div 60
        seconds == remainder % 60
    IN IF hours > 0
       THEN Decimal(hours) \o <<":">> \o TwoDigits(minutes) \o <<":">> \o TwoDigits(seconds)
       ELSE Decimal(minutes) \o <<":">> \o TwoDigits(seconds)

DurationFormattedValue(v) ==
    IF DurationValue(v) = None THEN None ELSE Some(FormatDuration(Get(DurationValue(v))))

\* video.duration
ReadDuration ==
    /\ NotRunning
    /\ ret' = Result("duration", <<>>, DurationValue(video))
    /\ video' = AfterDuration(video)
    /\ Idle

\* video.duration_formatted
ReadDurationFormatted ==
    /\ NotRunning
    /\ ret' = Result("duration_formatted", <<>>, DurationFormattedValue(video))
    /\ video' = AfterDuration(video)
    /\ Idle

(***************************************************************************)
(* SpecDuration: one record, loaded once with a page that states a         *)
(* duration, then read through duration and duration_formatted             *)
(* (XViewPlugin._format_video_info, Video.to_dict)                         *)
(***************************************************************************)

\* the H, M and S groups of an ISO-8601 value: absent, or a number
HourGroups == {None} \cup {Some(n) : n \in {0, 1, 2, 10}}
MinuteGroups == {None} \cup {Some(n) : n \in {0, 5, 30, 59, 90}}
SecondGroups == {None} \cup {Some(n) : n \in {0, 9, 45, 59, 75}}

Group(g, letter) == IF g = None THEN <<>> ELSE Decimal(Get(g)) \o <<letter>>
IsoText(h, m, s) == <<"P", "T">> \o Group(h, "H") \o Group(m, "M") \o Group(s, "S")

\* pages whose only statement of a duration is the JSON-LD value
IsoOnlyFrags(h, m, s) ==
    { <<JsonLdBlock(JObj(<<Pair("duration", JStr(IsoText(h, m, s)))>>))>>,
      <<TitleTag(<<"a">>),
        JsonLdBlock(JObj(<<Pair("name", JStr(<<"b">>)),
                           Pair("duration", JStr(IsoText(h, m, s)))>>))>> }

\* pages that state it in another way, or in another notation
OtherDurationFrags ==
    { <<DurationMeta(<<"3", "0", "0">>),
        JsonLdBlock(JObj(<<Pair("duration", JStr(IsoText(None, Some(5), Some(9))))>>))>>,
      <<DurationMeta(<<"x">>), DurationAssign(<<"7", "5", "s">>)>>,
      <<DurationAssign(<<"m", "s">>),
        JsonLdBlock(JObj(<<Pair("duration", JStr(<<"1", "2", "0">>))>>))>>,
      <<JsonLdBlock(JObj(<<Pair("video", JObj(<<Pair("duration", JStr(<<"6", "0">>))>>))>>))>>,
      <<JsonLdBlock(JObj(<<Pair("duration", JStr(<<"p", "t", "5", "m">>))>>))>>,
      <<JsonLdBlock(JObj(<<Pair("duration", JStr(<<"P", "T", "5", "m", "9", "s">>))>>))>>,
      <<JsonLdBlock(JObj(<<Pair("duration", JStr(<<"P", "1", "D">>))>>))>>,
      <<JsonLdBlock(JObj(<<Pair("duration", JList(<<>>))>>))>>,
      <<TitleTag(<<"a">>)>> }

DurationPages ==
    { Body(MinContentLen + 1, fr) :
        fr \in OtherDurationFrags \cup
               UNION { IsoOnlyFrags(h, m, s) :
                         h \in HourGroups, m \in MinuteGroups, s \in SecondGroups } }

InitDuration ==
    /\ video = NewVideo(VideoId123, None)
    /\ ret = NoResult
    /\ pc = "idle"
    /\ locals = NoLocals
    /\ net = <<>>
    /\ cache = NoCache

NextDuration ==
    \/ ~Loaded /\ \E p \in DurationPages : LoadContent(p)
    \/ Loaded /\ ReadDuration
    \/ Loaded /\ ReadDurationFormatted

SpecDuration == InitDuration /\ [][NextDuration]_vars

GroupValue(g) == IF g = None THEN 0 ELSE Get(g)
TotalSeconds(h, m, s) == 3600 * GroupValue(h) + 60 * GroupValue(m) + GroupValue(s)

\* the fields of a text between its ":" separators
RECURSIVE Fields(_)
Fields(t) ==
    IF \A i \in 1..Len(t) : t[i] # ":" THEN <<t>>
    ELSE LET i == CHOOSE k \in 1..Len(t) : t[k] = ":" /\ \A l \in 1..(k - 1) : t[l] # ":"
         IN <<SubSeq(t, 1, i - 1)>> \o Fields(SubSeq(t, i + 1, Len(t)))

\* a number written without padding, and one written on two digits
Unpadded(f, n) == IsDigit(f) /\ IntOf(f) = n /\ (Len(f) = 1 \/ f[1] # "0")
Padded(f, n) == IsDigit(f) /\ IntOf(f) = n /\ Len(f) = 2

\* text is hours:MM:SS, or minutes:SS
IsHMS(text, hours, minutes, seconds) ==
    /\ Len(Fields(text)) = 3
    /\ Unpadded(Fields(text)[1], hours)
    /\ Padded(Fields(text)[2], minutes)
    /\ Padded(Fields(text)[3], seconds)
IsMS(text, minutes, seconds) ==
    /\ Len(Fields(text)) = 2
    /\ Unpadded(Fields(text)[1], minutes)
    /\ Padded(Fields(text)[2], seconds)

\* the record holds a page of IsoOnlyFrags(h, m, s)
StatesOnly(h, m, s) == Loaded /\ Frags(video) \in IsoOnlyFrags(h, m, s)

\* C20 (as amended): on a page whose only duration is the JSON-LD value
\* PT#H#M#S, duration is 3600*H + 60*M + S with a missing group counted as 0,
\* and duration_formatted renders that total: with hours = total div 3600,
\* minutes = (total mod 3600) div 60 and seconds = total mod 60, it is
\* hours:MM:SS when hours > 0 and minutes:SS otherwise.
C20_IsoDurationTotalRendered ==
    \A h \in HourGroups, m \in MinuteGroups, s \in SecondGroups :
        StatesOnly(h, m, s) =>
            LET total == TotalSeconds(h, m, s)
            IN /\ ret.op = "duration" => ret.val = Some(total)
               /\ ret.op = "duration_formatted" =>
                     /\ ret.val # None
                     /\ video.dict["duration"] = Some(Some(total))
                     /\ IF total \div 3600 > 0
                        THEN IsHMS(Get(ret.val), total \div 3600,
                                   (total % 3600) \div 60, total % 60)
                        ELSE IsMS(Get(ret.val), total \div 60, total % 60)

\* PT1H30M45S read as 5445 and "1:30:45", or PT5M9S as 309 and "5:09"
C20_Witness ==
    /\ ret.op = "duration_formatted"
    /\ \/ /\ StatesOnly(Some(1), Some(30), Some(45))
          /\ video.dict["duration"] = Some(Some(5445))
          /\ ret.val = Some(<<"1", ":", "3", "0", ":", "4", "5">>)
       \/ /\ StatesOnly(None, Some(5), Some(9))
          /\ video.dict["duration"] = Some(Some(309))
          /\ ret.val = Some(<<"5", ":", "0", "9">>)

\* C20 (as stated): the same, with duration_formatted rendering the groups
\* themselves: H:MM:SS when the H group is above 0, M:SS otherwise.
C20_IsoDurationGroupsRendered ==
    \A h \in HourGroups, m \in MinuteGroups, s \in SecondGroups :
        StatesOnly(h, m, s) =>
            /\ ret.op = "duration" => ret.val = Some(TotalSeconds(h, m, s))
            /\ ret.op = "duration_formatted" =>
                  /\ ret.val # None
                  /\ IF GroupValue(h) > 0
                     THEN IsHMS(Get(ret.val), GroupValue(h), GroupValue(m), GroupValue(s))
                     ELSE IsMS(Get(ret.val), GroupValue(m), GroupValue(s))

(***************************************************************************)
(* SpecClient, continued: download_thumbnail                               *)
(***************************************************************************)

\* download_thumbnail has returned to cmd_video_info after a fetch_bytes
ThumbnailReturned ==
    /\ pc = "idle"
    /\ net # <<>>
    /\ net[Len(net)].fn = "fetch_bytes"
    /\ locals.cmd = "xview"
    /\ locals.stage = "download_thumbnail"

\* C21: once its record is resolved, download_thumbnail does not raise: a
\* failed download returns None, a transform that is unavailable or fails
\* returns the downloaded bytes, and with blur level 0 the downloaded bytes
\* are returned as they are.
C21_ThumbnailDegrades ==
    ThumbnailReturned =>
        /\ ret.op = "cmd_video_info" /\ ret.val.kind = "info"
        /\ locals.image_data = None => locals.thumbnail_data = None
        /\ (locals.image_data # None /\ locals.blur_level = 0) =>
               locals.thumbnail_data = locals.image_data
        /\ (/\ locals.image_data # None
            /\ locals.blur_level > 0
            /\ (~locals.pil_works \/ ~Decodable(Get(locals.image_data)))) =>
               locals.thumbnail_data = locals.image_data

\* a page that is not an image was downloaded and the transform asked for: the
\* bytes come back as downloaded and are saved
C21_Witness ==
    /\ ThumbnailReturned
    /\ locals.blur_level > 0
    /\ locals.image_data = Some("html")
    /\ locals.thumbnail_data = Some("html")
    /\ ret.val.image # None

(***************************************************************************)
(* SpecClient, continued: the candidate loop of get_video                  *)
(***************************************************************************)

\* a get_video call is in its loop, or has just left it
InGetVideo == pc \in {"fetch", "got_video", "raised"} /\ locals.i > 0
GetVideoEnded == pc \in {"got_video", "raised"} /\ locals.i > 0 /\ ret.op = "get_video"

\* the requests of the running call, and the answers fetch gave to them
GetVideoRequests == SubSeq(net, locals.base + 1, Len(net))
Sufficient(o) == o.ok /\ o.val.len > MinContentLen
Failures == SelectSeq(locals.outcomes, LAMBDA o : ~o.ok)
Contents == SelectSeq(locals.outcomes, LAMBDA o : o.ok /\ o.val.len > 0)

\* C22: get_video requests its candidates one at a time, in order and each at
\* most once; it goes on to the next only after an answer that is not a
\* sufficiently large success; it raises only with all candidates tried and no
\* content, the last failure recorded, or VideoNotFound when none was.
C22_CandidatesInOrder ==
    InGetVideo =>
        LET urls == locals.urls_to_try
            reqs == GetVideoRequests
            k == Len(locals.outcomes)
        IN /\ Len(reqs) = k /\ k <= Len(urls)
           /\ \A j \in 1..k : reqs[j].fn = "fetch" /\ reqs[j].page = urls[j]
           /\ \A j1, j2 \in 1..k : reqs[j1].page = reqs[j2].page => j1 = j2
           /\ \A j \in 1..(k - 1) : ~Sufficient(locals.outcomes[j])
           /\ GetVideoEnded =>
                 /\ k < Len(urls) => Sufficient(locals.outcomes[k])
                 /\ ~ret.val.ok =>
                       /\ k = Len(urls)
                       /\ Contents = <<>>
                       /\ ret.val.exc = IF Failures # <<>>
                                        THEN Failures[Len(Failures)].exc
                                        ELSE "VideoNotFound"
                 /\ ret.val.ok => Contents # <<>>

\* the candidate was answered by an empty 200 response: no failure is
\* recorded and the call raises VideoNotFound
C22_Witness ==
    /\ GetVideoEnded
    /\ ~ret.val.ok
    /\ Len(GetVideoRequests) = Len(locals.urls_to_try)
    /\ Failures = <<>>
    /\ locals.outcomes[1].ok
    /\ ret.val.exc = "VideoNotFound"

(***************************************************************************)
(* Numeric fields: views, followers                                        *)
(***************************************************************************)

\* a JSON number as json.loads reads it: a literal of digits is an int, one with
\* "." a float, one with the exponent token "e999" the float inf, "NaN" nan
JNum(s) == JVal("num", s, NoUrl, <<>>)
JNull == JVal("null", <<>>, NoUrl, <<>>)

ViewsText(v) == Frag("views_text", v, NoUrl, NoJson)           \* views: v, v in [\d,]+
FollowersDiv(v) == Frag("followers_div", v, NoUrl, NoJson)     \* label Followers, data v
FollowersCell(v) == Frag("followers_alt", v, NoUrl, NoJson)    \* Followers</div><div>v
FollowersData(v) == Frag("followers_data", v, NoUrl, NoJson)   \* follower_count: v

\* s.replace(",", "")
RemoveCommas(s) == SelectSeq(s, LAMBDA c : c # ",")

\* the leading run of [\d,] of a text
RECURSIVE CountRun(_, _)
CountRun(s, i) ==
    IF i <= Len(s) /\ s[i] \in Digits \cup {","} THEN <<s[i]>> \o CountRun(s, i + 1) ELSE <<>>

\* int(x) on a captured text or on a JSON-LD value
IntConv(j) ==
    CASE j.t = "str" -> IF IsDigit(j.s) THEN Returned(IntOf(j.s)) ELSE Raised("ValueError")
      [] j.t = "url" -> Raised("ValueError")
      [] j.t = "num" ->
            IF IsDigit(j.s) THEN Returned(IntOf(j.s))
            ELSE IF "e999" \in Range(j.s) THEN Raised("OverflowError")
            ELSE IF "NaN" \in Range(j.s) THEN Raised("ValueError")
            ELSE Returned(IntOf(DigitRun(j.s, 1)))
      [] OTHER -> Raised("TypeError")

\* the try/except (ValueError, TypeError) around a conversion: its value, None
\* when the failure is caught, or the exception that leaves it
Guarded(conv) ==
    IF conv.ok THEN Returned(Some(conv.val))
    ELSE IF conv.exc \in {"ValueError", "TypeError"} THEN Returned(None)
    ELSE Raised(conv.exc)

\* REGEX_VIDEO_VIEWS.search
ViewsMatches(frags) == SelectSeq(frags, LAMBDA f : f.k = "views_text" /\ CountRun(f.v, 1) # <<>>)

\* the body of the views property: what it returns or raises
ViewsCompute(v) ==
    IF NoContent(v) THEN Returned(None)
    ELSE LET hits == ViewsMatches(Frags(v))
             views_str == IF hits = <<>> THEN <<>> ELSE RemoveCommas(CountRun(Head(hits).v, 1))
             json_ld == ParseJsonLdValue(v)
         IN IF hits # <<>> /\ IsDigit(views_str) THEN Returned(Some(IntOf(views_str)))
            ELSE IF "interactionCount" \in DOMAIN json_ld
                THEN Guarded(IntConv(json_ld["interactionCount"]))
            ELSE Returned(None)

ViewsReachesJsonLd(v) ==
    /\ ~NoContent(v)
    /\ LET hits == ViewsMatches(Frags(v))
       IN hits = <<>> \/ ~IsDigit(RemoveCommas(CountRun(Head(hits).v, 1)))

\* REGEX_PROFILE_FOLLOWERS, _ALT and _DATA, each with search: the first capture
FollowersCapture(frags, pattern) ==
    LET hits == SelectSeq(frags, LAMBDA f :
                    CASE pattern = 1 -> f.k = "followers_div" /\ f.v # <<>>
                      [] pattern = 2 -> f.k \in {"followers_div", "followers_alt"}
                                        /\ CountRun(f.v, 1) # <<>>
                      [] OTHER       -> f.k = "followers_data" /\ CountRun(f.v, 1) # <<>>)
    IN IF hits = <<>> THEN None
       ELSE IF pattern = 1 THEN Some(Head(hits).v)
       ELSE Some(CountRun(Head(hits).v, 1))

\* the loop of the followers property from one pattern on
RECURSIVE FollowersFrom(_, _)
FollowersFrom(frags, pattern) ==
    IF pattern > 3 THEN Returned(None)
    ELSE LET c == FollowersCapture(frags, pattern)
             conv == IF c = None THEN Raised("ValueError")
                     ELSE IntConv(JStr(RemoveCommas(Get(c))))
         IN IF c # None /\ conv.ok THEN Returned(Some(conv.val))
            ELSE IF c # None /\ conv.exc \notin {"ValueError", "TypeError"} THEN conv
            ELSE FollowersFrom(frags, pattern + 1)

FollowersCompute(v) ==
    IF NoContent(v) THEN Returned(None) ELSE FollowersFrom(Frags(v), 1)

\* cached_property: a value that was returned is kept, an exception keeps nothing
CachedOr(v, prop, computed) ==
    IF v.dict[prop] # None THEN Returned(Get(v.dict[prop])) ELSE computed

AfterCached(v, prop, computed, parses) ==
    IF v.dict[prop] # None THEN v
    ELSE LET w == IF parses THEN AfterParseJsonLd(v) ELSE v
         IN IF computed.ok THEN [w EXCEPT !.dict[prop] = Some(computed.val)] ELSE w

\* video.views
ReadViews ==
    /\ NotRunning
    /\ ret' = Result("views", <<>>, CachedOr(video, "views", ViewsCompute(video)))
    /\ video' = AfterCached(video, "views", ViewsCompute(video), ViewsReachesJsonLd(video))
    /\ Idle

\* video.followers
ReadFollowers ==
    /\ NotRunning
    /\ ret' = Result("followers", <<>>, CachedOr(video, "followers", FollowersCompute(video)))
    /\ video' = AfterCached(video, "followers", FollowersCompute(video), FALSE)
    /\ Idle

(***************************************************************************)
(* Text fields with a JSON-LD fallback: description, uploader, publish_date *)
(***************************************************************************)

OgDescriptionMeta(v) == Frag("og_description", v, NoUrl, NoJson) \* <meta property="og:description" content="v">
UploaderAssign(v) == Frag("uploader_js", v, NoUrl, NoJson)       \* uploader: "v"
UploaderLink(v) == Frag("uploader_link", v, NoUrl, NoJson)       \* <a href="/profile/v">
DateAssign(v) == Frag("date_text", v, NoUrl, NoJson)             \* published: v

\* \d{4}[-/]\d{2}[-/]\d{2}: the date tokens of a text
DateTokens == {"2024-01-02", "2023/12/31"}

\* json_ld[key] as the accessor returns it: null is Python's None
FromJson(j) == IF j.t = "null" THEN None ELSE Some(j)

\* what the group of a pattern takes from the text that follows the name:
\* ([^"\']+) up to the closing quote, or a date at its start
Capture(how, t) ==
    IF how = "date" THEN (IF t # <<>> /\ Head(t) \in DateTokens THEN <<Head(t)>> ELSE <<>>)
    ELSE UpToQuote(t)

\* the captures of a pattern of the form name ["']? [:=] ["'] text inside the
\* text of a JSON value: a pair with one of the names as key and a string value
RECURSIVE AssignedInJson(_, _, _)
AssignedInJson(j, names, how) ==
    CASE j.t = "obj" ->
            IF j.items = <<>> THEN <<>>
            ELSE LET p == Head(j.items)
                     here == IF p.key \in names /\ p.val.t = "str" /\ Capture(how, p.val.s) # <<>>
                             THEN <<Capture(how, p.val.s)>>
                             ELSE AssignedInJson(p.val, names, how)
                 IN here \o AssignedInJson(JObj(Tail(j.items)), names, how)
      [] j.t = "list" ->
            IF j.items = <<>> THEN <<>>
            ELSE AssignedInJson(Head(j.items), names, how)
                     \o AssignedInJson(JList(Tail(j.items)), names, how)
      [] OTHER -> <<>>

\* the captures of such a pattern over the whole body, in page order
RECURSIVE AssignedCaptures(_, _, _, _)
AssignedCaptures(frags, kind, names, how) ==
    IF frags = <<>> THEN <<>>
    ELSE LET f == Head(frags)
             here == IF f.k = kind /\ Capture(how, f.v) # <<>> THEN <<Capture(how, f.v)>>
                     ELSE IF f.k = "json_ld" THEN AssignedInJson(f.j, names, how)
                     ELSE <<>>
         IN here \o AssignedCaptures(Tail(frags), kind, names, how)

\* REGEX_VIDEO_DESCRIPTION
DescriptionMatches(frags) ==
    SelectSeq(frags, LAMBDA f : f.k = "og_description" /\ UpToQuote(f.v) # <<>>)

\* REGEX_VIDEO_UPLOADER and REGEX_VIDEO_UPLOADER_ALT
UploaderCaptures(frags) ==
    AssignedCaptures(frags, "uploader_js", {"uploader", "author", "user"}, "text")
UploaderAltCaptures(frags) ==
    LET hits == SelectSeq(frags, LAMBDA f : f.k = "uploader_link" /\ UpToQuote(f.v) # <<>>)
    IN [i \in 1..Len(hits) |-> UpToQuote(hits[i].v)]

\* REGEX_VIDEO_DATE
DateCaptures(frags) ==
    AssignedCaptures(frags, "date_text", {"uploadDate", "datePublished", "date"}, "date")

\* (mutant) the JSON-LD key consulted before the meta tag
DescriptionComputeJsonFirst(v) ==
    IF NoContent(v) THEN None
    ELSE IF "description" \in DOMAIN ParseJsonLdValue(v)
        THEN FromJson(ParseJsonLdValue(v)["description"])
    ELSE IF DescriptionMatches(Frags(v)) # <<>>
        THEN Some(JStr(Unescape(Strip(UpToQuote(Head(DescriptionMatches(Frags(v))).v)))))
    ELSE None

\* the body of the description property
DescriptionCompute(v) ==
    IF NoContent(v) THEN None
    ELSE IF DescriptionMatches(Frags(v)) # <<>>
        THEN Some(JStr(Unescape(Strip(UpToQuote(Head(DescriptionMatches(Frags(v))).v)))))
    ELSE IF "description" \in DOMAIN ParseJsonLdValue(v)
        THEN FromJson(ParseJsonLdValue(v)["description"])
    ELSE None

\* the body of the uploader property
UploaderCompute(v) ==
    IF NoContent(v) THEN None
    ELSE IF UploaderCaptures(Frags(v)) # <<>> THEN Some(JStr(Head(UploaderCaptures(Frags(v)))))
    ELSE IF UploaderAltCaptures(Frags(v)) # <<>>
        THEN Some(JStr(Head(UploaderAltCaptures(Frags(v)))))
    ELSE IF "author_name" \in DOMAIN ParseJsonLdValue(v)
        THEN FromJson(ParseJsonLdValue(v)["author_name"])
    ELSE None

\* the body of the publish_date property
PublishDateCompute(v) ==
    IF NoContent(v) THEN None
    ELSE IF DateCaptures(Frags(v)) # <<>> THEN Some(JStr(Head(DateCaptures(Frags(v)))))
    ELSE IF "uploadDate" \in DOMAIN ParseJsonLdValue(v)
        THEN FromJson(ParseJsonLdValue(v)["uploadDate"])
    ELSE None

\* the accessor gets as far as _parse_json_ld
DescriptionReachesJsonLd(v) == ~NoContent(v) /\ DescriptionMatches(Frags(v)) = <<>>
UploaderReachesJsonLd(v) ==
    ~NoContent(v) /\ UploaderCaptures(Frags(v)) = <<>> /\ UploaderAltCaptures(Frags(v)) = <<>>
PublishDateReachesJsonLd(v) == ~NoContent(v) /\ DateCaptures(Frags(v)) = <<>>

\* video.description
ReadDescription ==
    /\ NotRunning
    /\ ret' = Result("description", <<>>,
                     CachedOr(video, "description", Returned(DescriptionCompute(video))))
    /\ video' = AfterCached(video, "description", Returned(DescriptionCompute(video)),
                            DescriptionReachesJsonLd(video))
    /\ Idle

\* video.uploader
ReadUploader ==
    /\ NotRunning
    /\ ret' = Result("uploader", <<>>,
                     CachedOr(video, "uploader", Returned(UploaderCompute(video))))
    /\ video' = AfterCached(video, "uploader", Returned(UploaderCompute(video)),
                            UploaderReachesJsonLd(video))
    /\ Idle

\* video.publish_date
ReadPublishDate ==
    /\ NotRunning
    /\ ret' = Result("publish_date", <<>>,
                     CachedOr(video, "publish_date", Returned(PublishDateCompute(video))))
    /\ video' = AfterCached(video, "publish_date", Returned(PublishDateCompute(video)),
                            PublishDateReachesJsonLd(video))
    /\ Idle

(***************************************************************************)
(* SpecFields: one record, loaded once, whose fields are read in any order *)
(* (XViewPlugin._format_video_info, Video.to_dict)                         *)
(***************************************************************************)

ViewsParts ==
    { <<>>,
      <<ViewsText(<<"1", ",", "2", "3", "4">>)>>,
      <<ViewsText(<<",">>), ViewsText(<<"9">>)>> }

CountValues ==
    { JStr(<<"1", "2">>), JStr(<<"x">>), JNum(<<"7">>), JNum(<<"7", ".", "5">>),
      JNum(<<"1", "e999">>), JNum(<<"NaN">>), JNull, JList(<<>>) }

CountParts ==
    {<<>>} \cup {<<JsonLdBlock(JObj(<<Pair("interactionCount", c)>>))>> : c \in CountValues}

FollowersParts ==
    { <<>>,
      <<FollowersDiv(<<"1", ",", "2">>)>>,
      <<FollowersDiv(<<"1", ".", "2", "k">>), FollowersData(<<"3">>)>>,
      <<FollowersCell(<<",">>), FollowersData(<<"x">>)>> }

DescriptionParts == { <<>>, <<OgDescriptionMeta(<<" ", "a", "&amp;amp;">>)>> }

UploaderParts ==
    { <<>>,
      <<UploaderLink(<<"bob">>), UploaderAssign(<<"ann">>)>>,
      <<UploaderLink(<<"bob">>)>> }

DateParts == { <<>>, <<DateAssign(<<"2023/12/31">>)>>, <<DateAssign(<<"soon">>)>> }

TextBlocks ==
    { <<>>,
      <<JsonLdBlock(JObj(<<Pair("description", JStr(<<"d">>)),
                           Pair("author", JObj(<<Pair("name", JStr(<<"cy">>))>>)),
                           Pair("uploadDate", JStr(<<"Jan">>))>>))>>,
      <<JsonLdBlock(JObj(<<Pair("description", JNull),
                           Pair("author", JStr(<<"dee">>)),
                           Pair("uploadDate", JStr(<<"2024-01-02", "T10">>))>>))>>,
      <<JsonLdBlock(JList(<<JObj(<<Pair("author", JObj(<<Pair("name", JList(<<>>))>>))>>),
                            JObj(<<Pair("description", JNum(<<"7">>))>>)>>))>> }

FieldPages ==
    { Body(MinContentLen + 1, a \o b \o c) :
        a \in ViewsParts, b \in FollowersParts, c \in CountParts }
    \cup
    { Body(MinContentLen + 1, a \o b \o c \o d) :
        a \in DescriptionParts, b \in UploaderParts, c \in DateParts, d \in TextBlocks }

InitFields ==
    /\ video = NewVideo(VideoId123, None)
    /\ ret = NoResult
    /\ pc = "idle"
    /\ locals = NoLocals
    /\ net = <<>>
    /\ cache = NoCache

NextFields ==
    \/ ~Loaded /\ \E p \in FieldPages : LoadContent(p)
    \/ Loaded /\ ReadViews
    \/ Loaded /\ ReadFollowers
    \/ Loaded /\ ReadDescription
    \/ Loaded /\ ReadUploader
    \/ Loaded /\ ReadPublishDate

SpecFields == InitFields /\ [][NextFields]_vars

FieldNames == {"views", "followers", "description", "uploader", "publish_date"}

\* C23: no field accessor raises, whatever the content: a pattern that does
\* not match or a conversion that fails counts as no match, and a field that
\* nothing yields is absent.
C23_AccessorsNeverRaise ==
    ret.op \in FieldNames => ret.val.ok

\* the text fields that fall back to the JSON-LD mapping, with its key
FallbackFields == {"description", "uploader", "publish_date"}
JsonLdKey(f) ==
    CASE f = "description" -> "description"
      [] f = "uploader"    -> "author_name"
      [] OTHER             -> "uploadDate"

\* the values the primary patterns of a field find on a page, one sequence for
\* each pattern, in the priority order of the patterns
Primaries(f, frags) ==
    CASE f = "description" ->
            <<[i \in 1..Len(DescriptionMatches(frags)) |->
                  Unescape(Strip(UpToQuote(DescriptionMatches(frags)[i].v)))]>>
      [] f = "uploader" -> <<UploaderCaptures(frags), UploaderAltCaptures(frags)>>
      [] OTHER -> <<DateCaptures(frags)>>

\* the first match of the first pattern that has one
FirstYield(found) ==
    IF \A i \in 1..Len(found) : found[i] = <<>> THEN None
    ELSE LET i == Min({k \in 1..Len(found) : found[k] # <<>>})
         IN Some(JStr(Head(found[i])))

X2 == Url("x2", TRUE, <<>>, <<"mp4", "m3u8">>)     \* https://cdn/a.mp4/index.m3u8
R2 == Url("r2", FALSE, <<>>, <<"mp4", "m3u8">>)    \* /media/a.mp4/index.m3u8
P0 == Url("p0", TRUE, <<>>, <<>>)                  \* https://cdn/play?id=7

SourceFrags ==
    { SourceTag(M720), SourceTag(W0), SourceTag(P0),
      BareUrl(M720), BareUrl(H1080), BareUrl(X2),
      JsVar(X2), JsVar(R2), JsVar(H1080),
      JsonLdBlock(JObj(<<Pair("contentUrl", JUrl(M720))>>)),
      JsonLdBlock(JObj(<<Pair("contentUrl", JUrl(P0))>>)) }

MaxSourceFrags == 3

SourcePages ==
    {Body(MinContentLen + 1, f) : f \in SeqsUpTo(SourceFrags, MaxSourceFrags)}

InitSources ==
    /\ video = NewVideo(VideoId123, None)
    /\ ret = NoResult
    /\ pc = "idle"
    /\ locals = NoLocals
    /\ net = <<>>
    /\ cache = NoCache

NextSources ==
    \/ ~Loaded /\ \E p \in SourcePages : LoadContent(p)
    \/ Loaded /\ ReadVideoSources

SpecSources == InitSources /\ [][NextSources]_vars

\* the urls each pass finds on the page, in the order of the passes
PassUrls(frags) ==
    << SourceTagUrls(frags),
       BareUrls(frags, "mp4"),
       BareUrls(frags, "m3u8"),
       JsVarUrls(frags),
       IF "contentUrl" \in DOMAIN JsonLdOfFrags(frags)
       THEN <<JsonLdOfFrags(frags)["contentUrl"].u>> ELSE <<>> >>

\* the first pass that finds a url, and the format that pass gives it
FoundBy(frags, u) == {p \in 1..5 : u \in Range(PassUrls(frags)[p])}
FirstPass(frags, u) == Min(FoundBy(frags, u))
FormatOfPass(p, u) ==
    CASE p = 2 -> "mp4"
      [] p = 3 -> "m3u8"
      [] p = 4 -> LastPlayableExt(u)
      [] OTHER -> DetectFormat(u)

Formats == {"mp4", "m3u8", "webm", "unknown"}
Occurrences(seq, x) == Cardinality({i \in 1..Len(seq) : seq[i] = x})

\* C25: the source list holds exactly the urls the passes find, ordered by the
\* first pass that finds each; a url is listed once however many later passes
\* find it again (the source tags alone list a url as often as it is tagged);
\* its format is the one its first pass assigns, and is one of mp4, m3u8,
\* webm, unknown.
C25_SourcesInPassOrder ==
    (Loaded /\ video.video_sources # None) =>
        LET S == Get(video.video_sources)
            frags == Frags(video)
        IN /\ \A p \in 1..5 : \A u \in Range(PassUrls(frags)[p]) : HasUrl(S, u)
           /\ \A i \in 1..Len(S) :
                 /\ FoundBy(frags, S[i].url) # {}
                 /\ S[i].format = FormatOfPass(FirstPass(frags, S[i].url), S[i].url)
                 /\ S[i].format \in Formats
                 /\ Occurrences([k \in 1..Len(S) |-> S[k].url], S[i].url) =
                       IF FirstPass(frags, S[i].url) = 1
                       THEN Occurrences(SourceTagUrls(frags), S[i].url)
                       ELSE 1
           /\ \A i, j \in 1..Len(S) :
                 i < j => FirstPass(frags, S[i].url) <= FirstPass(frags, S[j].url)

\* a url with both extensions, written in a script variable only: the bare
\* .mp4 pass lists it as mp4, and the .m3u8 and script passes leave it so
C25_Witness ==
    /\ Loaded /\ video.video_sources # None
    /\ Frags(video) = <<JsVar(X2), JsVar(R2)>>
    /\ Get(video.video_sources) = <<Source(X2, "mp4"), Source(R2, "m3u8")>>

(***************************************************************************)
(* Client sessions: _get_session, fetch and close as coroutines of one     *)
(* event loop. A coroutine runs without interruption up to an await that   *)
(* suspends it; _get_session has none. In this part net is the sequence of *)
(* the sessions the client has created, locals the client's _session       *)
(* attribute with the session each running fetch holds, and pc the         *)
(* position of every coroutine.                                            *)
(***************************************************************************)

Fetchers == {"f1", "f2", "f3"}
Coroutines == Fetchers \cup {"close"}

\* no session: the value None of Client._session
NoSession == 0

\* the number of sessions after which no further one is created
MaxSessions == 3

\* session.closed
Closed(sessions, s) == sessions[s] = "closed"

\* (mutant) a session is created for every request
NeedsSessionAlways(session, sessions) == TRUE

\* if self._session is None or self._session.closed
NeedsSession(session, sessions) == session = NoSession \/ Closed(sessions, session)

\* Client._get_session followed by session.request(...): the coroutine sends
\* its request on the client's session, created first when there is none
FetchBegin(t) ==
    /\ pc[t] = "idle"
    /\ pc["close"] # "done"
    /\ IF NeedsSession(locals.session, net)
       THEN /\ Len(net) < MaxSessions
            /\ net' = Append(net, "open")
            /\ locals' = [locals EXCEPT !.session = Len(net) + 1,
                                        !.held[t] = Len(net) + 1]
       ELSE /\ net' = net
            /\ locals' = [locals EXCEPT !.held[t] = locals.session]
    /\ pc' = [pc EXCEPT ![t] = "request"]
    /\ UNCHANGED <<video, ret, cache>>

\* the request of a coroutine ends: with the response, or with an
\* aiohttp.ClientError that fetch turns into NetworkError when the session
\* was closed under it
FetchEnd(t) ==
    /\ pc[t] = "request"
    /\ ret' = Result("fetch", t, IF Closed(net, locals.held[t])
                                 THEN Raised("NetworkError") ELSE Returned(<<>>))
    /\ pc' = [pc EXCEPT ![t] = "idle"]
    /\ locals' = [locals EXCEPT !.held[t] = NoSession]
    /\ UNCHANGED <<video, net, cache>>

\* XViewPlugin.terminate, Client.close up to its await: with an open session,
\* session.close() is entered; aiohttp marks the session closed either before
\* it suspends (early) or when it is done
CloseBegin(early) ==
    /\ pc["close"] = "idle"
    /\ IF locals.session # NoSession /\ ~Closed(net, locals.session)
       THEN /\ pc' = [pc EXCEPT !["close"] = "closing"]
            /\ locals' = [locals EXCEPT !.closing = locals.session]
            /\ net' = IF early THEN [net EXCEPT ![locals.session] = "closed"] ELSE net
       ELSE /\ pc' = [pc EXCEPT !["close"] = "done"]
            /\ UNCHANGED <<locals, net>>
    /\ UNCHANGED <<video, ret, cache>>

\* Client.close after its await: the session it closed is closed, and
\* self._session = None
CloseEnd ==
    /\ pc["close"] = "closing"
    /\ net' = [net EXCEPT ![locals.closing] = "closed"]
    /\ locals' = [locals EXCEPT !.session = NoSession, !.closing = NoSession]
    /\ pc' = [pc EXCEPT !["close"] = "done"]
    /\ UNCHANGED <<video, ret, cache>>

(***************************************************************************)
(* SpecSession: three command handlers fetching, and one terminate         *)
(***************************************************************************)

InitSession ==
    /\ video = NewVideo(VideoId123, None)
    /\ ret = NoResult
    /\ pc = [t \in Coroutines |-> "idle"]
    /\ locals = [session |-> NoSession, closing |-> NoSession,
                 held |-> [t \in Fetchers |-> NoSession]]
    /\ net = <<>>
    /\ cache = NoCache

NextSession ==
    \/ \E t \in Fetchers : FetchBegin(t)
    \/ \E t \in Fetchers : FetchEnd(t)
    \/ \E early \in BOOLEAN : CloseBegin(early)
    \/ CloseEnd

SpecSession == InitSession /\ [][NextSession]_vars

OpenSessions == {s \in 1..Len(net) : ~Closed(net, s)}

\* C26: once close() has completed, every session the client created is
\* closed and the client references no open session, however close() and the
\* fetches interleave.
C26_AllSessionsClosed ==
    pc["close"] = "done" =>
        /\ OpenSessions = {}
        /\ locals.session = NoSession \/ Closed(net, locals.session)

\* C27: the client references at most one open session: every open session
\* it has created and not closed is the one it references, and as long as no
\* close has begun all requests under way are on that one session.
C27_OneOpenSession ==
    /\ [](pc["close"] = "idle" =>
             /\ Len(net) <= 1
             /\ OpenSessions \subseteq {locals.session}
             /\ \A t \in Fetchers : pc[t] = "request" => locals.held[t] = locals.session)
    /\ [][Len(net') > Len(net) =>
             (locals.session = NoSession \/ Closed(net, locals.session))]_vars

\* a first request has ended and two more are under way, all on one session
C27_Witness ==
    /\ pc["close"] = "idle"
    /\ ret.op = "fetch" /\ ret.val.ok
    /\ Cardinality({t \in Fetchers : pc[t] = "request"}) = 2
    /\ \A t \in Fetchers : pc[t] = "request" => locals.held[t] = 1
    /\ net = <<"open">>

(***************************************************************************)
(* SpecHandlers: command handlers running concurrently on one plugin.  A   *)
(* handler is an async generator: it runs up to an await or a yield, and   *)
(* other handlers run in between.  _cleanup_cache and _save_thumbnail hold *)
(* no await, so each is one step together with the code around it; the     *)
(* awaits of get_video and download_thumbnail change nothing the handlers  *)
(* share and are one wait.  pc[h] is the handler's position, cache the     *)
(* cache directory and _last_cache_files, ret the last reply sent.         *)
(***************************************************************************)
Handlers == {"h1", "h2"}
Commands == {"xview", "xview_link", "xview_pic"}
NoId == <<>>
RequestedIds == {NoId, <<"1">>, <<"2">>}
NoReply == [kind |-> "none", path |-> <<>>]
PlainResult == [kind |-> "plain", path |-> <<>>]
ChainResult(thumb_path) == [kind |-> "chain", path |-> thumb_path]

\* the handlers that save a thumbnail when they have one
SavesThumbnail(cmd) == cmd \in {"xview", "xview_pic"}

\* a handler is called: _cleanup_cache, then the reply for a missing id, or
\* the first await
CommandBegin(h, cmd, video_id) ==
    /\ pc[h] = "idle"
    /\ cache' = CleanupCache(cache)
    /\ IF video_id = NoId
         THEN /\ locals' = [locals EXCEPT ![h] = [cmd |-> cmd, id |-> video_id,
                                                  reply |-> PlainResult]]
              /\ pc' = [pc EXCEPT ![h] = "yielded"]
         ELSE /\ locals' = [locals EXCEPT ![h] = [cmd |-> cmd, id |-> video_id,
                                                  reply |-> NoReply]]
              /\ pc' = [pc EXCEPT ![h] = "awaiting"]
    /\ UNCHANGED <<video, ret, net>>

\* the awaits are over: with a thumbnail and a video, _save_thumbnail and the
\* yield of the chain that names the saved file; otherwise a text reply
CommandResume(h, found) ==
    /\ pc[h] = "awaiting"
    /\ IF found /\ SavesThumbnail(locals[h].cmd)
         THEN /\ cache' = SaveThumbnail(cache, locals[h].id)
              /\ locals' = [locals EXCEPT
                               ![h].reply = ChainResult(ThumbPath(locals[h].id))]
         ELSE /\ cache' = cache
              /\ locals' = [locals EXCEPT ![h].reply = PlainResult]
    /\ pc' = [pc EXCEPT ![h] = "yielded"]
    /\ UNCHANGED <<video, ret, net>>

\* the framework sends what the handler yielded; an image is read from its
\* file at that moment
Deliver(h) ==
    /\ pc[h] = "yielded"
    /\ ret' = Result("deliver", h,
                     [reply |-> locals[h].reply,
                      exists |-> locals[h].reply.kind = "chain"
                                    => locals[h].reply.path \in cache.disk])
    /\ pc' = [pc EXCEPT ![h] = "delivered"]
    /\ UNCHANGED <<video, locals, net, cache>>

\* the generator is resumed after its yield and returns
CommandEnd(h) ==
    /\ pc[h] = "delivered"
    /\ pc' = [pc EXCEPT ![h] = "idle"]
    /\ locals' = [locals EXCEPT ![h] = [cmd |-> "none", id |-> NoId, reply |-> NoReply]]
    /\ UNCHANGED <<video, ret, net, cache>>

InitHandlers ==
    /\ video = NewVideo(VideoId123, None)
    /\ ret = NoResult
    /\ pc = [h \in Handlers |-> "idle"]
    /\ locals = [h \in Handlers |-> [cmd |-> "none", id |-> NoId, reply |-> NoReply]]
    /\ net = <<>>
    /\ cache = NoCache

NextHandlers ==
    \/ \E h \in Handlers, cmd \in Commands, video_id \in RequestedIds :
          CommandBegin(h, cmd, video_id)
    \/ \E h \in Handlers, found \in BOOLEAN : CommandResume(h, found)
    \/ \E h \in Handlers : Deliver(h)
    \/ \E h \in Handlers : CommandEnd(h)

SpecHandlers == InitHandlers /\ [][NextHandlers]_vars

\* the handlers that have yielded a chain and not returned yet
Unfinished == {h \in Handlers : pc[h] \in {"yielded", "delivered"}
                                  /\ locals[h].reply.kind = "chain"}

\* C28: a thumbnail a handler saved exists when its reply is sent, whatever
\* other handlers do meanwhile; a step that removes files removes none that
\* belongs to a handler still running; and after a handler's initial
\* _cleanup_cache the list of recorded files is empty.
C28_ThumbnailSurvives ==
    /\ [](ret.op = "deliver" => ret.val.exists)
    /\ [][\A h \in Unfinished : locals[h].reply.path \in cache.disk
                                     => locals[h].reply.path \in cache'.disk]_vars
    /\ [][(\E h \in Handlers : pc[h] = "idle" /\ pc'[h] # "idle")
              => cache'.last = <<>>]_vars

====
